---- MODULE Spec2Model ----
(***************************************************************************)
(* A model of maplibre-example-viewer: the synchronizer scripts and the    *)
(* snippet state of the page.                                              *)
(*   scripts/sync-examples.mjs  (Catalog Synchronizer, fetchWithRetry)     *)
(*   scripts/sync-snippets.mjs  (Snippet Synchronizer, fetchWithRetry)     *)
(*   src/app/page.tsx           (Home: activeExample and the snippet load) *)
(* Text is modelled as TLA+ strings, processed character by character the  *)
(* way the scripts' regular expressions process it.                        *)
(***************************************************************************)
EXTENDS Integers, Sequences, FiniteSets, TLC

VARIABLES
    \* ---- one call of fetchWithRetry ----
    script,       \* "examples" | "snippets": whose fetchWithRetry is running
    url,          \* the url argument
    attempts,     \* the attempts argument (maxAttempts)
    attempt,      \* the loop variable
    fpc,          \* position in fetchWithRetry
    lastError,    \* the local variable lastError
    remote,       \* what the remote does with the request in flight
    timers,       \* attempts whose abort timer is armed (sync-snippets only)
    nFetch,       \* number of fetch() calls made by this call (history)
    delays,       \* backoff delays taken by this call, in order (history)
    \* ---- main() of sync-examples.mjs ----
    pc,           \* position in main
    file,         \* content of src/data/examples.json
    served,       \* the overview page the remote serves
    overviewHtml, \* the local overviewHtml
    sourceEntries,\* the local sourceEntries
    examples,     \* the local examples
    failure,      \* what main rejected with
    exitCode,     \* process exit status, -1 while running
    runs,         \* number of runs started
    fileAtStart,  \* file content when the current run started (history)
    prevRun,      \* outcome and output of the run before this one (history)
    today,        \* index in Days of the current day
    \* ---- main() of sync-snippets.mjs ----
    spc,          \* position in main
    dir,          \* the files of public/snippets, by path
    tasks,        \* the local tasks
    pending,      \* the local pending
    offset,       \* the loop variable index of the batch loop
    progress,     \* where each task of pending is in its async function
    created,      \* the counter created
    skipped,      \* the counter skipped
    failed,       \* the counter failed
    crash,        \* what main rejected with
    status,       \* process exit status of sync-snippets, -1 while running
    requested,    \* urls fetch() was called with in this run (history)
    wrote,        \* tasks of pending that called fs.writeFile (history)
    faults,       \* network and file system failures so far (history)
    passes,       \* number of runs of sync-snippets started
    dirAtStart,   \* dir when the current run started (history)
    prevReport,   \* the counts the run before this one logged (history)
    \* ---- pickSnippet on its own ----
    blocks,       \* the argument blocks
    picked,       \* the value returned
    \* ---- the functions of sync-examples.mjs on their own ----
    call,         \* the function called and its arguments
    returned,     \* the value returned
    \* ---- the component Home of page.tsx ----
    activeExample, \* the state activeExample
    snippetContent,\* the state snippetContent
    snippetStatus, \* the state snippetStatus
    loads,         \* the calls of loadSnippet so far, in order
    erred          \* slugs whose load set the status error (history)

fetchVars == <<script, url, attempts, attempt, fpc, lastError, remote, timers,
               nFetch, delays>>
mainVars == <<pc, file, served, overviewHtml, sourceEntries, examples, failure,
              exitCode, runs, fileAtStart, prevRun, today>>
snippetVars == <<spc, dir, tasks, pending, offset, progress, created, skipped,
                 failed, crash, status, requested, wrote, faults, passes,
                 dirAtStart, prevReport>>
pickVars == <<blocks, picked>>
callVars == <<call, returned>>
pageVars == <<activeExample, snippetContent, snippetStatus, loads, erred>>
vars == <<fetchVars, mainVars, snippetVars, pickVars, callVars, pageVars>>

\* sync-snippets.mjs is not running.
NoReport == [done |-> FALSE, created |-> 0, skipped |-> 0, failed |-> 0]
IdleSnippets ==
    /\ spc = "idle"
    /\ dir = <<>>
    /\ tasks = <<>>
    /\ pending = <<>>
    /\ offset = 0
    /\ progress = <<>>
    /\ created = 0
    /\ skipped = 0
    /\ failed = 0
    /\ crash = ""
    /\ status = -1
    /\ requested = {}
    /\ wrote = {}
    /\ faults = 0
    /\ passes = 0
    /\ dirAtStart = <<>>
    /\ prevReport = NoReport

\* pickSnippet is not being called.
IdlePick ==
    /\ blocks = <<>>
    /\ picked = ""

\* No function of sync-examples.mjs is being called on its own.
NoCall == [fn |-> "none"]
IdleCall ==
    /\ call = NoCall
    /\ returned = ""

\* The page is not open.
IdlePage ==
    /\ activeExample = ""
    /\ snippetContent = ""
    /\ snippetStatus = "closed"
    /\ loads = <<>>
    /\ erred = {}

(***************************************************************************)
(* Bounds of the model.                                                    *)
(***************************************************************************)
MaxAttempts == 4
MaxRuns == 2
MaxFragments == 2
MaxFaults == 2
MaxKept == 1
MaxBlocks == 3
MaxIndex == 55
MaxLoads == 3

(***************************************************************************)
(* fetchWithRetry                                                          *)
(***************************************************************************)
OVERVIEW_URL == "https://maplibre.org/maplibre-gl-js/docs/examples/"
OverviewAttempts == 4
BackoffBase == 1000

Urls == {OVERVIEW_URL, OVERVIEW_URL \o "add-a-marker/"}
BadStatuses == {404, 503}

\* What the remote can do with one request: answer ok, answer with a non-ok
\* status, fail the transport, or never answer.
RemoteOutcomes ==
    {[kind |-> "ok", status |-> 200], [kind |-> "throw", status |-> 0],
     [kind |-> "hang", status |-> 0]}
    \cup {[kind |-> "status", status |-> s] : s \in BadStatuses}
NoRemote == [kind |-> "none", status |-> 0]

\* Error values. `at` is the attempt that created the error object.
NoError == [kind |-> "undefined", url |-> "", status |-> 0, at |-> -1]
StatusError(u, s, a) == [kind |-> "status", url |-> u, status |-> s, at |-> a]
ThrownError(a) == [kind |-> "thrown", url |-> "", status |-> 0, at |-> a]
AbortError(a) == [kind |-> "abort", url |-> "", status |-> 0, at |-> a]

\* for (let attempt = 0; attempt < attempts; attempt += 1)
LoopRunsOnePastEnd(a, n) == a <= n
LoopContinues(a, n) == a < n

\* lastError = error / lastError = new Error(...)
KeepFirstError(prev, err) == IF prev = NoError THEN err ELSE prev
AssignLastError(prev, err) == err

\* 1000 * (attempt + 1)
BackoffDelay(a) == BackoffBase * (a + 1)

HasTimeout(s) == s = "snippets"

\* The state of a fresh call fetchWithRetry(u, n) of script s.
CallFetch(s, u, n) ==
    /\ script' = s
    /\ url' = u
    /\ attempts' = n
    /\ attempt' = 0
    /\ fpc' = IF LoopContinues(0, n) THEN "try" ELSE "thrown"
    /\ lastError' = NoError
    /\ remote' = NoRemote
    /\ timers' = {}
    /\ nFetch' = 0
    /\ delays' = <<>>

\* const timer = setTimeout(abort, timeoutMs); await fetch(url, {signal})
Send ==
    /\ fpc = "try"
    /\ fpc' = "inflight"
    /\ nFetch' = nFetch + 1
    /\ timers' = IF HasTimeout(script) THEN timers \cup {attempt} ELSE timers
    /\ \E r \in RemoteOutcomes : remote' = r
    /\ UNCHANGED <<script, url, attempts, attempt, lastError, delays>>
    /\ UNCHANGED <<mainVars, snippetVars, pickVars, callVars, pageVars>>

\* The failed attempt's path to the backoff: await new Promise(setTimeout ...)
FailAttempt(err) ==
    /\ lastError' = AssignLastError(lastError, err)
    /\ delays' = Append(delays, BackoffDelay(attempt))
    /\ fpc' = "sleep"

\* Where the call goes with a response that is ok: return response; and a
\* variant for checking that goes on to the backoff.
BackoffAfterOk == "sleep"
AfterOk == "returned"

\* response.ok: clearTimeout(timer); return response
RespondOk ==
    /\ fpc = "inflight"
    /\ remote.kind = "ok"
    /\ fpc' = AfterOk
    /\ timers' = timers \ {attempt}
    /\ UNCHANGED <<script, url, attempts, attempt, lastError, remote, nFetch, delays>>
    /\ UNCHANGED <<mainVars, snippetVars, pickVars, callVars, pageVars>>

\* !response.ok: clearTimeout(timer); lastError = new Error(`Failed to fetch ...`)
RespondStatus ==
    /\ fpc = "inflight"
    /\ remote.kind = "status"
    /\ FailAttempt(StatusError(url, remote.status, attempt))
    /\ timers' = timers \ {attempt}
    /\ UNCHANGED <<script, url, attempts, attempt, remote, nFetch>>
    /\ UNCHANGED <<mainVars, snippetVars, pickVars, callVars, pageVars>>

\* fetch rejects: catch (error) { lastError = error } (the timer is not cleared)
RespondThrow ==
    /\ fpc = "inflight"
    /\ remote.kind = "throw"
    /\ FailAttempt(ThrownError(attempt))
    /\ UNCHANGED <<script, url, attempts, attempt, remote, timers, nFetch>>
    /\ UNCHANGED <<mainVars, snippetVars, pickVars, callVars, pageVars>>

\* The abort timer of the request in flight fires: fetch rejects with an
\* AbortError, which the catch stores.
TimerFires ==
    /\ fpc = "inflight"
    /\ attempt \in timers
    /\ FailAttempt(AbortError(attempt))
    /\ timers' = timers \ {attempt}
    /\ UNCHANGED <<script, url, attempts, attempt, remote, nFetch>>
    /\ UNCHANGED <<mainVars, snippetVars, pickVars, callVars, pageVars>>

\* The timer of an attempt that is over fires: abort() of a settled request.
StaleTimerFires ==
    /\ \E a \in timers :
          /\ ~(fpc = "inflight" /\ a = attempt)
          /\ timers' = timers \ {a}
    /\ UNCHANGED <<script, url, attempts, attempt, fpc, lastError, remote, nFetch, delays>>
    /\ UNCHANGED <<mainVars, snippetVars, pickVars, callVars, pageVars>>

\* The backoff ends: attempt += 1, then the loop test; throw lastError after it.
Wake ==
    /\ fpc = "sleep"
    /\ attempt' = attempt + 1
    /\ fpc' = IF LoopContinues(attempt + 1, attempts) THEN "try" ELSE "thrown"
    /\ UNCHANGED <<script, url, attempts, lastError, remote, timers, nFetch, delays>>
    /\ UNCHANGED <<mainVars, snippetVars, pickVars, callVars, pageVars>>

FetchDone == fpc \in {"returned", "thrown"}

IdleFetch ==
    /\ script = "examples"
    /\ url = OVERVIEW_URL
    /\ attempts = OverviewAttempts
    /\ attempt = 0
    /\ fpc = "idle"
    /\ lastError = NoError
    /\ remote = NoRemote
    /\ timers = {}
    /\ nFetch = 0
    /\ delays = <<>>

(***************************************************************************)
(* Text: strings, read one character at a time.                            *)
(***************************************************************************)
UpperLetters == "ABCDEFGHIJKLMNOPQRSTUVWXYZ"
LowerLetters == "abcdefghijklmnopqrstuvwxyz"
DigitChars == "0123456789"

CharAt(s, i) == SubSeq(s, i, i)
CharsOf(s) == {CharAt(s, i) : i \in 1..Len(s)}
UpperSet == CharsOf(UpperLetters)
LowerSet == CharsOf(LowerLetters)
DigitSet == CharsOf(DigitChars)
IndexIn(c, alphabet) == CHOOSE i \in 1..Len(alphabet) : CharAt(alphabet, i) = c
LowerOf == [c \in UpperSet |-> CharAt(LowerLetters, IndexIn(c, UpperLetters))]
UpperOf == [c \in LowerSet |-> CharAt(UpperLetters, IndexIn(c, LowerLetters))]
lowerChar(c) == IF c \in UpperSet THEN LowerOf[c] ELSE c
upperChar(c) == IF c \in LowerSet THEN UpperOf[c] ELSE c

\* pieces[a] \o ... \o pieces[b]
RECURSIVE concatRange(_, _, _)
concatRange(pieces, a, b) ==
    IF a > b THEN ""
    ELSE IF a = b THEN pieces[a]
    ELSE LET m == (a + b) \div 2 IN
         concatRange(pieces, a, m) \o concatRange(pieces, m + 1, b)
concat(pieces) == concatRange(pieces, 1, Len(pieces))

toLowerCase(s) == concat([k \in 1..Len(s) |-> lowerChar(CharAt(s, k))])
toUpperCase(s) == concat([k \in 1..Len(s) |-> upperChar(CharAt(s, k))])

Min(S) == CHOOSE k \in S : \A j \in S : k <= j
Max(S) == CHOOSE k \in S : \A j \in S : j <= k

IsLetter(c) == c \in UpperSet \/ c \in LowerSet
IsDigit(c) == c \in DigitSet
\* \w, \s and . of the regular expressions
IsWordChar(c) == IsLetter(c) \/ IsDigit(c) \/ c = "_"
IsSpace(c) == c \in {" ", "\t", "\n", "\r"}
IsDotChar(c) == c \notin {"\n", "\r"}

\* Does the literal lit stand in s at position i (ci: the i flag)?
LitAt(s, i, lit, ci) ==
    /\ i >= 1
    /\ i + Len(lit) - 1 <= Len(s)
    /\ IF ci THEN toLowerCase(SubSeq(s, i, i + Len(lit) - 1)) = toLowerCase(lit)
             ELSE SubSeq(s, i, i + Len(lit) - 1) = lit

\* The first position >= i where lit stands in s, 0 if there is none.
IndexOf(s, lit, i, ci) ==
    LET hay == IF ci THEN toLowerCase(s) ELSE s
        needle == IF ci THEN toLowerCase(lit) ELSE lit
        hits == {k \in i..(Len(s) - Len(lit) + 1) :
                    SubSeq(hay, k, k + Len(lit) - 1) = needle}
    IN IF hits = {} THEN 0 ELSE Min(hits)
Contains(s, lit, ci) == IndexOf(s, lit, 1, ci) > 0

\* String.prototype.trim
trim(s) ==
    LET inked == {k \in 1..Len(s) : ~IsSpace(CharAt(s, k))} IN
    IF inked = {} THEN "" ELSE SubSeq(s, Min(inked), Max(inked))

\* The end (exclusive) of the run of white space that starts at position i.
SpaceRunEnd(s, i) ==
    LET inked == {k \in i..Len(s) : ~IsSpace(CharAt(s, k))} IN
    IF inked = {} THEN Len(s) + 1 ELSE Min(inked)

\* s.replace(/\s{min,}/g, " "), from position i on
RECURSIVE collapseSpaces(_, _, _)
collapseSpaces(s, i, min) ==
    LET starts == {k \in i..Len(s) :
                    /\ IsSpace(CharAt(s, k))
                    /\ (k = i \/ ~IsSpace(CharAt(s, k - 1)))
                    /\ SpaceRunEnd(s, k) - k >= min}
    IN IF starts = {} THEN SubSeq(s, i, Len(s))
       ELSE SubSeq(s, i, Min(starts) - 1) \o " "
                \o collapseSpaces(s, SpaceRunEnd(s, Min(starts)), min)

\* s.split(sep) for a one-character separator, and parts.join(sep)
RECURSIVE split(_, _)
split(s, sep) ==
    LET i == IndexOf(s, sep, 1, FALSE) IN
    IF i = 0 THEN <<s>>
    ELSE <<SubSeq(s, 1, i - 1)>> \o split(SubSeq(s, i + 1, Len(s)), sep)
RECURSIVE join(_, _)
join(parts, sep) ==
    IF Len(parts) = 0 THEN ""
    ELSE IF Len(parts) = 1 THEN parts[1]
    ELSE parts[1] \o sep \o join(Tail(parts), sep)

(***************************************************************************)
(* Text extraction utilities of sync-examples.mjs                          *)
(***************************************************************************)
htmlEntityMap ==
    << <<"&amp;", "&">>, <<"&lt;", "<">>, <<"&gt;", ">">>, <<"&quot;", "\"">>,
       <<"&#39;", "'">> >>

\* The entity of htmlEntityMap standing at position i of text, 0 if none.
EntityAt(text, i) ==
    LET hits == {k \in 1..Len(htmlEntityMap) : LitAt(text, i, htmlEntityMap[k][1], FALSE)}
    IN IF hits = {} THEN 0 ELSE CHOOSE k \in hits : TRUE

\* text.replace(/(&amp;|&lt;|&gt;|&quot;|&#39;)/g, ...), from position i on
RECURSIVE decodeFrom(_, _)
decodeFrom(text, i) ==
    LET hits == {k \in i..Len(text) : EntityAt(text, k) > 0} IN
    IF hits = {} THEN SubSeq(text, i, Len(text))
    ELSE LET at == Min(hits)
             e == htmlEntityMap[EntityAt(text, at)]
         IN SubSeq(text, i, at - 1) \o e[2] \o decodeFrom(text, at + Len(e[1]))
decodeEntities(text) == decodeFrom(text, 1)

\* text.replace(/<[^>]*>/g, ""), from position i on
RECURSIVE removeTags(_, _)
removeTags(text, i) ==
    LET lastGt == IF Contains(text, ">", FALSE)
                  THEN Max({k \in 1..Len(text) : CharAt(text, k) = ">"}) ELSE 0
        opens == {k \in i..Len(text) : CharAt(text, k) = "<" /\ k < lastGt}
    IN IF opens = {} THEN SubSeq(text, i, Len(text))
       ELSE SubSeq(text, i, Min(opens) - 1)
                \o removeTags(text, IndexOf(text, ">", Min(opens) + 1, FALSE) + 1)

stripTags(text) == decodeEntities(trim(removeTags(text, 1)))

(***************************************************************************)
(* main() of sync-examples.mjs: scanning the overview page                 *)
(***************************************************************************)
H2Open == "<h2 id=\""
H2Mid == "\"><a href=\""
H2HrefEnd == "\">"
H2Close == "</a></h2>"
Quote == "\""

\* href.replace(/\/$/, "")
dropTrailingSlash(href) ==
    IF Len(href) > 0 /\ CharAt(href, Len(href)) = "/"
    THEN SubSeq(href, 1, Len(href) - 1) ELSE href

\* One match of /<p[^>]*>([\s\S]*?)<\/p>/gi starting at position i of html:
\* [ok, raw (group 1), next (lastIndex)]; gt is the end of <p[^>]*>, end the
\* start of the first </p> after it.
NoParagraph(i) == [ok |-> FALSE, raw |-> "", next |-> i + 1]
ParagraphBody(html, i, gt, end) ==
    IF end > 0
    THEN [ok |-> TRUE, raw |-> SubSeq(html, gt + 1, end - 1), next |-> end + 4]
    ELSE NoParagraph(i)
ParagraphOpen(html, i, gt) ==
    IF gt > 0 THEN ParagraphBody(html, i, gt, IndexOf(html, "</p>", gt + 1, TRUE))
    ELSE NoParagraph(i)
ParagraphAt(html, i) ==
    IF LitAt(html, i, "<p", TRUE)
    THEN ParagraphOpen(html, i, IndexOf(html, ">", i + 2, FALSE))
    ELSE NoParagraph(i)

\* if (text && !/meta property/i.test(text) && !/<img/i.test(raw) && !/<iframe/i.test(raw))
Qualifies(raw, text) ==
    /\ text # ""
    /\ ~Contains(text, "meta property", TRUE)
    /\ ~Contains(raw, "<img", TRUE)
    /\ ~Contains(raw, "<iframe", TRUE)
SectionParagraphQualifies(raw) == Qualifies(raw, stripTags(raw))

\* The while (pMatch) loop of the section scan: the description of a section.
RECURSIVE sectionDescription(_, _)
RECURSIVE descriptionFrom(_, _)
RECURSIVE descriptionOr(_, _, _)
descriptionOr(sectionHtml, m, text) ==
    IF m.ok /\ Qualifies(m.raw, text) THEN text
    ELSE sectionDescription(sectionHtml, m.next)
descriptionFrom(sectionHtml, m) == descriptionOr(sectionHtml, m, stripTags(m.raw))
sectionDescription(sectionHtml, i) ==
    IF IndexOf(sectionHtml, "<p", i, TRUE) = 0 THEN ""
    ELSE descriptionFrom(sectionHtml,
                         ParagraphAt(sectionHtml, IndexOf(sectionHtml, "<p", i, TRUE)))

\* One match of sectionRegex starting at position i of html:
\* [ok, href (group 2), title (group 3), body (group 4), next (lastIndex)].
\* q1 and q2 are the quotes that end the id and the href, close the start of
\* the first </a></h2> after them, bodyEnd the end of group 4.
NoSection(i) ==
    [ok |-> FALSE, href |-> "", title |-> "", body |-> "", next |-> i + 1]
SectionMatch(html, hrefStart, q2, close, bodyEnd) ==
    [ok |-> TRUE, href |-> SubSeq(html, hrefStart, q2 - 1),
     title |-> SubSeq(html, q2 + Len(H2HrefEnd), close - 1),
     body |-> SubSeq(html, close + Len(H2Close), bodyEnd), next |-> bodyEnd + 1]
SectionBody(html, hrefStart, q2, close, nextH2) ==
    SectionMatch(html, hrefStart, q2, close,
                 IF nextH2 > 0 THEN nextH2 - 1 ELSE Len(html))
SectionTitle(html, i, hrefStart, q2, close) ==
    IF close > 0
    THEN SectionBody(html, hrefStart, q2, close,
                     IndexOf(html, H2Open, close + Len(H2Close), TRUE))
    ELSE NoSection(i)
SectionHref(html, i, hrefStart, q2) ==
    IF q2 > hrefStart /\ LitAt(html, q2, H2HrefEnd, TRUE)
    THEN SectionTitle(html, i, hrefStart, q2,
                      IndexOf(html, H2Close, q2 + Len(H2HrefEnd), TRUE))
    ELSE NoSection(i)
SectionId(html, i, q1) ==
    IF q1 > i + Len(H2Open) /\ LitAt(html, q1, H2Mid, TRUE)
    THEN SectionHref(html, i, q1 + Len(H2Mid),
                     IndexOf(html, Quote, q1 + Len(H2Mid), FALSE))
    ELSE NoSection(i)
SectionAt(html, i) ==
    IF LitAt(html, i, H2Open, TRUE)
    THEN SectionId(html, i, IndexOf(html, Quote, i + Len(H2Open), FALSE))
    ELSE NoSection(i)

\* The while (match) loop over sectionRegex: the array sections.
RECURSIVE scanSections(_, _)
RECURSIVE sectionsFrom(_, _)
RECURSIVE sectionsWith(_, _, _)
sectionsWith(html, m, slug) ==
    IF m.ok /\ slug # ""
    THEN <<[slug |-> slug, title |-> stripTags(m.title),
            description |-> sectionDescription(m.body, 1)]>>
             \o scanSections(html, m.next)
    ELSE scanSections(html, m.next)
sectionsFrom(html, start) ==
    IF start = 0 THEN <<>>
    ELSE sectionsWith(html, SectionAt(html, start),
                      dropTrailingSlash(SectionAt(html, start).href))
scanSections(html, i) == sectionsFrom(html, IndexOf(html, H2Open, i, TRUE))

\* The matches of hrefRegex = /href="([^"]+)"/g, in order: group 1 of each.
RECURSIVE scanHrefs(_, _)
RECURSIVE hrefsFrom(_, _, _)
hrefsFrom(html, start, q) ==
    IF start = 0 THEN <<>>
    ELSE IF q > start + 6
    THEN <<SubSeq(html, start + 6, q - 1)>> \o scanHrefs(html, q + 1)
    ELSE scanHrefs(html, start + 1)
scanHrefs(html, i) ==
    hrefsFrom(html, IndexOf(html, "href=\"", i, FALSE),
              IndexOf(html, Quote, IndexOf(html, "href=\"", i, FALSE) + 6, FALSE))

\* /^[a-z0-9-]+\/$/i.test(href)
SlugChar(c) == IsLetter(c) \/ IsDigit(c) \/ c = "-"
slugShaped(href) ==
    /\ Len(href) >= 2
    /\ CharAt(href, Len(href)) = "/"
    /\ \A k \in 1..(Len(href) - 1) : SlugChar(CharAt(href, k))

InSeq(x, seq) == \E k \in 1..Len(seq) : seq[k] = x

\* if (slug && !seen.has(slug)) { seen.add(slug); slugList.push(slug); }
PushAlways(slugList, slug) == Append(slugList, slug)
PushIfUnseen(slugList, slug) ==
    IF slug # "" /\ ~InSeq(slug, slugList) THEN Append(slugList, slug) ELSE slugList

\* The while (match) loop over hrefRegex: the array slugList.
RECURSIVE buildSlugList(_, _, _)
buildSlugList(hrefs, k, slugList) ==
    IF k > Len(hrefs) THEN slugList
    ELSE IF ~slugShaped(hrefs[k]) THEN buildSlugList(hrefs, k + 1, slugList)
    ELSE buildSlugList(hrefs, k + 1, PushIfUnseen(slugList, dropTrailingSlash(hrefs[k])))

\* humanizeSlug: the callback of .map()
IsDigitsThenD(part) ==
    /\ Len(part) >= 2
    /\ lowerChar(CharAt(part, Len(part))) = "d"
    /\ \A k \in 1..(Len(part) - 1) : IsDigit(CharAt(part, k))
\* part.charAt(0).toUpperCase() + part.slice(1), and a variant for checking.
KeepCase(part) == part
LeadingCapital(part) == upperChar(CharAt(part, 1)) \o SubSeq(part, 2, Len(part))
humanizePart(part) ==
    IF part = "" THEN part
    ELSE IF IsDigitsThenD(part) THEN toUpperCase(part)
    ELSE IF toLowerCase(part) = "pmtiles" THEN "PMTiles"
    ELSE IF toLowerCase(part) = "webgl" THEN "WebGL"
    ELSE IF toLowerCase(part) = "gl" THEN "GL"
    ELSE LeadingCapital(part)
humanizeSlug(slug) ==
    LET parts == split(slug, "-") IN
    join([k \in 1..Len(parts) |-> humanizePart(parts[k])], " ")

GenericDescription == "MapLibre GL JS example."

\* new Map(sections.map(...)).get(slug): the last section with that slug, or
\* undefined (0 here).
sectionIndex(sections, slug) ==
    LET hits == {k \in 1..Len(sections) : sections[k].slug = slug} IN
    IF hits = {} THEN 0 ELSE CHOOSE k \in hits : \A j \in hits : j <= k

\* const sourceEntries = slugList.map(...)
buildSourceEntries(sections, slugList) ==
    [k \in 1..Len(slugList) |->
        LET at == sectionIndex(sections, slugList[k]) IN
        IF at > 0 THEN sections[at]
        ELSE [slug |-> slugList[k], title |-> humanizeSlug(slugList[k]),
              description |-> GenericDescription]]

\* Lines 160-241: overviewHtml to sourceEntries.
parseOverview(html) ==
    buildSourceEntries(scanSections(html, 1), buildSlugList(scanHrefs(html, 1), 1, <<>>))

(***************************************************************************)
(* getMetaContent and getDescription of sync-examples.mjs                  *)
(***************************************************************************)
\* One match of <meta[^>]+(?:property|name)="name"[^>]+content="([^"]*)" with
\* the i flag, starting at position i of html.  limit is the first > after
\* <meta (neither [^>]+ passes it), j the start of the attribute, k the start
\* of content=": each [^>]+ is greedy, so the last j and the last k that let
\* the rest match are taken.  [ok, value (group 1)].
MetaOpen == "<meta"
ContentOpen == "content=\""
NoMeta == [ok |-> FALSE, value |-> ""]
MetaAttributes(name) ==
    {"property=\"" \o name \o Quote, "name=\"" \o name \o Quote}
ContentStarts(html, from, limit) ==
    {k \in (from + 1)..(limit - 1) :
        /\ LitAt(html, k, ContentOpen, TRUE)
        /\ IndexOf(html, Quote, k + Len(ContentOpen), FALSE) > 0}
AttributeEnds(html, i, limit, name) ==
    {j + Len(lit) : j \in (i + Len(MetaOpen) + 1)..(limit - 1), lit \in MetaAttributes(name)}
AttributeEndsAt(html, i, limit, name) ==
    {e \in AttributeEnds(html, i, limit, name) :
        /\ \E lit \in MetaAttributes(name) : LitAt(html, e - Len(lit), lit, TRUE)
        /\ ContentStarts(html, e, limit) # {}}
MetaValue(html, k) ==
    [ok |-> TRUE,
     value |-> SubSeq(html, k + Len(ContentOpen),
                      IndexOf(html, Quote, k + Len(ContentOpen), FALSE) - 1)]
MetaContent(html, limit, ends) ==
    IF ends = {} THEN NoMeta
    ELSE MetaValue(html, Max(ContentStarts(html, Max(ends), limit)))
MetaWithin(html, i, limit, name) ==
    MetaContent(html, limit, AttributeEndsAt(html, i, limit, name))
MetaAt(html, i, name, gt) ==
    MetaWithin(html, i, IF gt = 0 THEN Len(html) + 1 ELSE gt, name)

\* html.match(metaRegex): the first position where the regex matches.
RECURSIVE metaMatch(_, _, _)
RECURSIVE metaMatchOr(_, _, _, _)
metaMatchOr(html, i, name, m) ==
    IF m.ok THEN m ELSE metaMatch(html, i + 1, name)
metaMatch(html, i, name) ==
    IF IndexOf(html, MetaOpen, i, TRUE) = 0 THEN NoMeta
    ELSE metaMatchOr(html, IndexOf(html, MetaOpen, i, TRUE), name,
                     MetaAt(html, IndexOf(html, MetaOpen, i, TRUE), name,
                            IndexOf(html, ">", IndexOf(html, MetaOpen, i, TRUE) + Len(MetaOpen),
                                    FALSE)))

\* return match ? stripTags(match[1]) : "";
metaText(m) == IF m.ok THEN stripTags(m.value) ELSE ""
getMetaContent(html, name) == metaText(metaMatch(html, 1, name))

\* html.match(/<h1[^>]*>([\s\S]*?)<\/h1>/i): the position after the match, 0
\* when there is no match.  gt is the end of <h1[^>]*>, close the first </h1>
\* after it; when the first <h1 has none, no later one has.
H1Open == "<h1"
H1Close == "</h1>"
AfterClose(close) == IF close > 0 THEN close + Len(H1Close) ELSE 0
AfterOpen(html, gt) ==
    IF gt > 0 THEN AfterClose(IndexOf(html, H1Close, gt + 1, TRUE)) ELSE 0
AfterFirst(html, i) ==
    IF i > 0 THEN AfterOpen(html, IndexOf(html, ">", i + Len(H1Open), FALSE)) ELSE 0
afterH1(html) == AfterFirst(html, IndexOf(html, H1Open, 1, TRUE))

\* if (text && !/meta property/i.test(text) && !/^\s*<meta/i.test(text)
\*     && !/^\s*<iframe/i.test(text))
PageParagraphQualifies(text) ==
    /\ text # ""
    /\ ~Contains(text, "meta property", TRUE)
    /\ ~LitAt(text, SpaceRunEnd(text, 1), "<meta", TRUE)
    /\ ~LitAt(text, SpaceRunEnd(text, 1), "<iframe", TRUE)

\* The while (pMatch) loop of getDescription over after: the text returned,
\* "" when the loop ends without returning.
RECURSIVE pageDescription(_, _)
RECURSIVE pageDescriptionOr(_, _, _)
pageDescriptionOr(after, m, text) ==
    IF m.ok /\ PageParagraphQualifies(text) THEN text
    ELSE pageDescription(after, m.next)
pageDescription(after, i) ==
    IF IndexOf(after, "<p", i, TRUE) = 0 THEN ""
    ELSE pageDescriptionOr(after, ParagraphAt(after, IndexOf(after, "<p", i, TRUE)),
                           stripTags(ParagraphAt(after, IndexOf(after, "<p", i, TRUE)).raw))

\* getMetaContent(html, "og:description") || getMetaContent(html, "description")
firstTruthy(first, second) == IF first # "" THEN first ELSE second
metaDescription(html) ==
    firstTruthy(getMetaContent(html, "og:description"), getMetaContent(html, "description"))
descriptionAfter(html, at) ==
    IF at > 0 THEN pageDescription(SubSeq(html, at, Len(html)), 1) ELSE ""
getDescription(html) ==
    firstTruthy(descriptionAfter(html, afterH1(html)), metaDescription(html))

(***************************************************************************)
(* The translator of sync-examples.mjs                                     *)
(***************************************************************************)
phraseMap ==
    <<
       <<"add a", "添加">>, <<"add an", "添加">>, <<"add", "添加">>,
       <<"create and style", "劜建延梷徏厖">>, <<"create", "劜建">>, <<"display", "暾禺">>,
       <<"change", "劇揢">>, <<"style", "梷徏厖">>, <<"animate", "动疻">>,
       <<"fly to", "飞裌劰">>, <<"geocode with", "俿疨">>, <<"sync movement of", "和毥">>,
       <<"enable", "咯疨">>, <<"use", "俿疨">>, <<"render", "溲染">>, <<"visualize", "可视厖">>,
       <<"filter", "过滤">>, <<"search", "撜綢">>, <<"load", "加追">>, <<"show", "暾禺">>,
       <<"build", "构建">>, <<"based on", "基于">>, <<"in an", "垨亀亪">>, <<"in a", "垨亀亪">>,
       <<"in the", "垨">>, <<"to the", "劰">>, <<"to a", "劰亀亪">>, <<"to", "劰">>,
       <<"with", "俿疨">>, <<"using", "俿疨">>
    >>

wordMap ==
    <<
       <<"map", "垰图">>, <<"maps", "垰图">>, <<"a", "">>, <<"an", "">>, <<"the", "">>,
       <<"marker", "梇记">>, <<"markers", "梇记">>, <<"layer", "图峂">>, <<"layers", "图峂">>,
       <<"source", "旰揮源">>, <<"sources", "旰揮源">>, <<"tiles", "瓦狇">>,
       <<"vector", "矢量">>, <<"raster", "梅梼">>, <<"geojson", "GeoJSON">>,
       <<"polygon", "妚边忢">>, <<"line", "线">>, <<"lines", "线">>, <<"heatmap", "热力图">>,
       <<"cluster", "胚系">>, <<"clusters", "胚系">>, <<"label", "梇篾">>,
       <<"labels", "梇篾">>, <<"icon", "图梇">>, <<"icons", "图梇">>, <<"control", "控件">>,
       <<"controls", "控件">>, <<"navigation", "导芪">>, <<"terrain", "垰忢">>,
       <<"globe", "垰璃">>, <<"camera", "相枺">>, <<"popup", "徹窗">>, <<"hover", "悬僜">>,
       <<"click", "点击">>, <<"drag", "拖拽">>, <<"pattern", "图棈">>, <<"language", "语誀">>,
       <<"time", "时间">>, <<"slider", "滑埗">>, <<"scroll", "滚动">>, <<"story", "叙事">>,
       <<"video", "视频">>, <<"image", "图像">>, <<"example", "禺例">>, <<"examples", "禺例">>,
       <<"buildings", "建篑">>, <<"building", "建篑">>, <<"model", "檡型">>,
       <<"models", "檡型">>, <<"shadow", "隴忱">>, <<"custom", "自定仉">>, <<"simple", "简叕">>,
       <<"multiple", "妚亪">>, <<"interactive", "交互徏">>, <<"browser", "淏览囨">>,
       <<"data-driven", "旰揮髱动">>, <<"data", "旰揮">>, <<"point", "点">>,
       <<"points", "点">>, <<"circle", "垆">>, <<"fill", "士凅">>, <<"symbol", "箦号">>,
       <<"style", "梷徏">>, <<"filter", "过滤">>, <<"zoom", "義斾">>, <<"rotate", "旋迬">>,
       <<"pan", "廳移">>, <<"move", "移动">>, <<"measure", "淋量">>, <<"draw", "绘劶">>,
       <<"elevation", "高窋">>, <<"extrusion", "拉侸">>, <<"sky", "妩竺">>, <<"fog", "雾">>,
       <<"actual", "瞟实">>, <<"line", "线">>, <<"routes", "路线">>, <<"route", "路线">>,
       <<"geocode", "垰璆羖碁">>, <<"globe", "垰璃">>, <<"hillshade", "峱俓隴忱">>,
       <<"contour", "築高线">>, <<"raster-dem", "梅梼高窋">>, <<"satellite", "叫暟">>,
       <<"streets", "裗郓">>, <<"text", "文枬">>, <<"font", "寗俓">>, <<"color", "颜苲">>,
       <<"colors", "颜苲">>, <<"opacity", "邏暎度">>, <<"3d", "3D">>,
       <<"pmtiles", "PMTiles">>, <<"webgl", "WebGL">>
    >>

\* The parts of an anchored template pattern /^...$/i: a literal, a capturing
\* group (.+?) or (.+), an optional non-capturing alternation (?:a|b)?.
Lit(s) == [k |-> "lit", s |-> s, alts |-> <<>>]
LazyGroup == [k |-> "lazy", s |-> "", alts |-> <<>>]
GreedyGroup == [k |-> "greedy", s |-> "", alts |-> <<>>]
Opt(alts) == [k |-> "opt", s |-> "", alts |-> alts]

titleTemplates ==
    <<
       [pattern |-> <<Lit("Add a "), GreedyGroup>>,
        replacement |-> "添加 $1"],
       [pattern |-> <<Lit("Add an "), GreedyGroup>>,
        replacement |-> "添加 $1"],
       [pattern |-> <<Lit("Add "), GreedyGroup>>,
        replacement |-> "添加 $1"],
       [pattern |-> <<Lit("Create a "), GreedyGroup>>,
        replacement |-> "劜建 $1"],
       [pattern |-> <<Lit("Create "), GreedyGroup>>,
        replacement |-> "劜建 $1"],
       [pattern |-> <<Lit("Display a "), GreedyGroup>>,
        replacement |-> "暾禺 $1"],
       [pattern |-> <<Lit("Display "), GreedyGroup>>,
        replacement |-> "暾禺 $1"],
       [pattern |-> <<Lit("Style "), GreedyGroup>>,
        replacement |-> "梷徏厖 $1"],
       [pattern |-> <<Lit("Change "), GreedyGroup>>,
        replacement |-> "劇揢 $1"],
       [pattern |-> <<Lit("Animate "), GreedyGroup>>,
        replacement |-> "动疻 $1"],
       [pattern |-> <<Lit("Fly to "), GreedyGroup>>,
        replacement |-> "飞裌劰 $1"],
       [pattern |-> <<Lit("Sync movement of "), GreedyGroup>>,
        replacement |-> "和毥 $1 移动"]
    >>

descriptionTemplates ==
    <<
       [pattern |-> <<Lit("Use a custom style layer with "), LazyGroup, Lit(" to add "), LazyGroup, Lit(" to "), Opt(<<"the ", "a ">>), LazyGroup, Lit(".")>>,
        replacement |-> "俿疨自定仉梷徏图峂ﾌ邚过 $1 岆 $2 添加劰 $3も"],
       [pattern |-> <<Lit("Use a custom style layer with "), LazyGroup, Lit(" to add "), LazyGroup, Lit(".")>>,
        replacement |-> "俿疨自定仉梷徏图峂ﾌ邚过 $1 添加 $2も"],
       [pattern |-> <<Lit("Add "), LazyGroup, Lit(" to the map.")>>,
        replacement |-> "岆 $1 添加劰垰图も"],
       [pattern |-> <<Lit("Add "), LazyGroup, Lit(" to a globe.")>>,
        replacement |-> "岆 $1 添加劰垰璃も"],
       [pattern |-> <<Lit("Add "), LazyGroup, Lit(" to the globe.")>>,
        replacement |-> "岆 $1 添加劰垰璃も"],
       [pattern |-> <<Lit("Add "), LazyGroup, Lit(" to a map.")>>,
        replacement |-> "岆 $1 添加劰垰图も"],
       [pattern |-> <<Lit("Display "), LazyGroup, Lit(" on the map.")>>,
        replacement |-> "垨垰图亊暾禺 $1も"],
       [pattern |-> <<Lit("Show "), LazyGroup, Lit(" in "), Opt(<<"an ", "a ">>), LazyGroup, Lit(".")>>,
        replacement |-> "垨 $2 亭暾禺 $1も"],
       [pattern |-> <<Lit("Initialize a map in an HTML element with MapLibre GL JS.")>>,
        replacement |-> "垨 HTML 凃綠亭俿疨 MapLibre GL JS 劝始厖垰图も"],
       [pattern |-> <<Lit("Go beyond hillshade and show elevation in actual 3D.")>>,
        replacement |-> "亍毢于峱俓隴忱ﾌ暾禺瞟实 3D 高窋も"]
    >>

\* The tools' lexer rejects a character above U+00FF whose low byte is below
\* 0x80; such a character c is written as the first character from c + 0x80 on that
\* the lexer accepts and the tables do not use (the same class
\* [\u4e00-\u9fff], one stand-in per character).
\* The characters of [\u4e00-\u9fff] that the tables and the model's texts use.
CjkChars ==
    "亀亊事亍于互交亪亭仉件例侸俓俿像僜凃凅击劇力劜劝加动劰劶厖叕叙叫可号和咯囨图垆型垨垰埗基士妚妩始定实寗导岆峂峱度廳延建徏徹忢忱悬拉拖拽控揢揮撜文斾旋旰时暎暟暾构枬枺染梅梇梷梼棈檡毢毥淋淏添源溲滑滚滤点热狇璃璆瓦疨疻相瞟矢碁禺移窋窗竺简箦築篑篾系綠綢级线绘羖義胚自芪苲裌裗视览誀记语路边过迬追邏邚郓量间隴雾频颜飞高髱"
CjkSet == CharsOf(CjkChars)
IsCjk(c) == c \in CjkSet

\* \b at the position between characters i-1 and i of s
WordBoundary(s, i) ==
    (i > 1 /\ IsWordChar(CharAt(s, i - 1))) # (i <= Len(s) /\ IsWordChar(CharAt(s, i)))

\* output.replace(new RegExp(`\\b${from}\\b`, "gi"), to), from position i on
RECURSIVE replaceWord(_, _, _, _)
replaceWord(s, from, to, i) ==
    LET low == toLowerCase(s)
        n == Len(from)
        hits == {k \in i..(Len(s) - n + 1) :
                    /\ SubSeq(low, k, k + n - 1) = toLowerCase(from)
                    /\ WordBoundary(s, k)
                    /\ WordBoundary(s, k + n)}
    IN IF hits = {} THEN SubSeq(s, i, Len(s))
       ELSE SubSeq(s, i, Min(hits) - 1) \o to \o replaceWord(s, from, to, Min(hits) + n)

\* for (const [from, to] of map) output = output.replace(...), from entry k on.
\* (The test on Len(next) makes the value of this round exist before the next.)
RECURSIVE applyMap(_, _, _)
applyMap(output, map, k) ==
    IF k > Len(map) THEN output
    ELSE LET next == replaceWord(output, map[k][1], map[k][2], 1) IN
         IF Len(next) >= 0 THEN applyMap(next, map, k + 1) ELSE next

translateText(text) ==
    IF text = "" THEN ""
    ELSE LET phrased == applyMap(text, phraseMap, 1)
             worded == applyMap(phrased, wordMap, 1)
         IN trim(collapseSpaces(worded, 1, 2))

\* Matching parts pi.. of an anchored pattern against s from position pos:
\* [ok, caps], the captures of the first match in the engine's order.
NoMatch == [ok |-> FALSE, caps |-> <<>>]
RECURSIVE matchFrom(_, _, _, _)
matchFrom(pattern, pi, s, pos) ==
    IF pi > Len(pattern) THEN [ok |-> pos = Len(s) + 1, caps |-> <<>>]
    ELSE LET p == pattern[pi] IN
         IF p.k = "lit"
         THEN IF LitAt(s, pos, p.s, TRUE)
              THEN matchFrom(pattern, pi + 1, s, pos + Len(p.s)) ELSE NoMatch
         ELSE IF p.k = "opt"
         THEN LET taken == {a \in 1..Len(p.alts) :
                               /\ LitAt(s, pos, p.alts[a], TRUE)
                               /\ matchFrom(pattern, pi + 1, s, pos + Len(p.alts[a])).ok}
              IN IF taken = {} THEN matchFrom(pattern, pi + 1, s, pos)
                 ELSE matchFrom(pattern, pi + 1, s, pos + Len(p.alts[Min(taken)]))
         ELSE LET lens == {n \in 1..(Len(s) - pos + 1) :
                              /\ \A c \in pos..(pos + n - 1) : IsDotChar(CharAt(s, c))
                              /\ matchFrom(pattern, pi + 1, s, pos + n).ok}
                  n == IF p.k = "lazy" THEN Min(lens) ELSE Max(lens)
              IN IF lens = {} THEN NoMatch
                 ELSE [ok |-> TRUE,
                       caps |-> <<SubSeq(s, pos, pos + n - 1)>>
                                    \o matchFrom(pattern, pi + 1, s, pos + n).caps]

\* The replacement string with $1..$9 filled in from the captures.
RECURSIVE substitute(_, _, _)
substitute(replacement, caps, i) ==
    LET refs == {k \in i..(Len(replacement) - 1) :
                    /\ CharAt(replacement, k) = "$"
                    /\ IsDigit(CharAt(replacement, k + 1))
                    /\ IndexIn(CharAt(replacement, k + 1), DigitChars) - 1 \in 1..Len(caps)}
    IN IF refs = {} THEN SubSeq(replacement, i, Len(replacement))
       ELSE LET at == Min(refs) IN
            SubSeq(replacement, i, at - 1)
                \o caps[IndexIn(CharAt(replacement, at + 1), DigitChars) - 1]
                \o substitute(replacement, caps, at + 2)

\* for (const [pattern, replacement] of templates) if (pattern.test(text)) return ...
translateWith(templates, text) ==
    IF text = "" THEN ""
    ELSE LET fits == {t \in 1..Len(templates) :
                         matchFrom(templates[t].pattern, 1, text, 1).ok}
         IN IF fits = {} THEN translateText(text)
            ELSE LET t == templates[Min(fits)] IN
                 translateText(
                     substitute(t.replacement, matchFrom(t.pattern, 1, text, 1).caps, 1))

translateTitle(title) == translateWith(titleTemplates, title)
translateDescription(description) == translateWith(descriptionTemplates, description)

\* The alternatives of the allow-list expression of isMostlyChinese, in order.
\* `three\\.js` in a regular-expression literal is: three, a backslash, any
\* character, js.
Plain(s) == [pre |-> s, dot |-> FALSE, post |-> ""]
ThenAnyThen(pre, post) == [pre |-> pre, dot |-> TRUE, post |-> post]
allowList ==
    <<Plain("MapLibre"), Plain("WebGL"), Plain("GL"), Plain("3D"), Plain("PMTiles"),
      Plain("GeoJSON"), Plain("HTML"), Plain("CSS"), Plain("JS"), Plain("JSON"),
      Plain("URL"), Plain("API"), Plain("Nominatim"), ThenAnyThen("three\\", "js"),
      ThenAnyThen("babylon\\", "js"), ThenAnyThen("deck\\", "gl"), Plain("MapTiler")>>

AllowLen(p) == Len(p.pre) + (IF p.dot THEN 1 + Len(p.post) ELSE 0)
AllowAt(text, i, p) ==
    /\ LitAt(text, i, p.pre, TRUE)
    /\ p.dot =>
          /\ i + Len(p.pre) <= Len(text)
          /\ IsDotChar(CharAt(text, i + Len(p.pre)))
          /\ LitAt(text, i + Len(p.pre) + 1, p.post, TRUE)
AllowedAt(text, i) == {a \in 1..Len(allowList) : AllowAt(text, i, allowList[a])}

\* text.replace(/(MapLibre|WebGL|...)/gi, ""), from position i on
RECURSIVE removeAllowed(_, _)
removeAllowed(text, i) ==
    LET hits == {k \in i..Len(text) : AllowedAt(text, k) # {}} IN
    IF hits = {} THEN SubSeq(text, i, Len(text))
    ELSE LET at == Min(hits) IN
         SubSeq(text, i, at - 1)
             \o removeAllowed(text, at + AllowLen(allowList[Min(AllowedAt(text, at))]))

\* /[A-Za-z]{3,}/.test(cleaned)
HasLetterRun(cleaned) ==
    \E k \in 1..(Len(cleaned) - 2) : \A j \in k..(k + 2) : IsLetter(CharAt(cleaned, j))

\* isMostlyChinese on a string
AnyCjk(text) == \E k \in 1..Len(text) : IsCjk(CharAt(text, k))
isMostlyChinese(text) ==
    IF text = "" THEN FALSE
    ELSE LET cleaned == trim(collapseSpaces(removeAllowed(text, 1), 1, 1)) IN
         (\E k \in 1..Len(cleaned) : IsCjk(CharAt(cleaned, k))) /\ ~HasLetterRun(cleaned)

(***************************************************************************)
(* classifyTag, classifyLevel and the accent palette of sync-examples.mjs  *)
(***************************************************************************)
\* The rules of classifyTag in order: the alternatives of each test and the tag.
tagRules ==
    <<[keywords |-> <<"terrain", "3d", "extrusion", "globe", "sky", "fog">>,
       result |-> "3D & Terrain"],
      [keywords |-> <<"animate", "animation", "fly to", "camera", "easing", "orbit">>,
       result |-> "Animation"],
      [keywords |-> <<"cluster", "performance", "pmtiles", "large dataset", "optimi", "realtime", "world copy">>,
       result |-> "Performance"],
      [keywords |-> <<"popup", "hover", "click", "drag", "gesture", "control", "navigation", "interactive", "geocode", "draw", "measure">>,
       result |-> "Interaction"],
      [keywords |-> <<"style", "label", "text", "font", "color", "pattern", "symbol", "icon", "expression">>,
       result |-> "Style"],
      [keywords |-> <<"geojson", "vector", "raster", "tile", "source", "heatmap", "data">>,
       result |-> "Data"],
      [keywords |-> <<"slider", "scroll", "sync", "story", "timeline", "filter">>,
       result |-> "UI Patterns"] >>
DefaultTag == "Basics"

\* The rules of classifyLevel in order.
levelRules ==
    <<[keywords |-> <<"custom layer", "deck.gl", "three.js", "babylon", "pmtiles", "terrain", "3d", "advanced", "scripting">>,
       result |-> "Advanced"],
      [keywords |-> <<"animate", "cluster", "expression", "heatmap", "vector", "raster", "data-driven", "filter", "style">>,
       result |-> "Intermediate"] >>
DefaultLevel == "Beginner"

\* /(k1|k2|...)/.test(text)
MatchesAny(text, keywords) ==
    \E k \in 1..Len(keywords) : Contains(text, keywords[k], FALSE)

\* A variant for checking: the last rule that matches.
RECURSIVE lastRule(_, _, _, _)
lastRule(rules, k, text, default) ==
    IF k > Len(rules) THEN default
    ELSE LET later == lastRule(rules, k + 1, text, default) IN
         IF later # default THEN later
         ELSE IF MatchesAny(text, rules[k].keywords) THEN rules[k].result
         ELSE default

\* The chain of if (...) return ...; statements, from rule k on.
RECURSIVE firstRule(_, _, _, _)
firstRule(rules, k, text, default) ==
    IF k > Len(rules) THEN default
    ELSE IF MatchesAny(text, rules[k].keywords) THEN rules[k].result
    ELSE firstRule(rules, k + 1, text, default)

\* const text = `${title} ${description}`.toLowerCase();
classifierText(title, description) == toLowerCase(title \o " " \o description)
classifyTag(title, description) ==
    firstRule(tagRules, 1, classifierText(title, description), DefaultTag)
classifyLevel(title, description) ==
    firstRule(levelRules, 1, classifierText(title, description), DefaultLevel)

accentPalette ==
    <<"from-amber-200 via-rose-200 to-orange-200",
      "from-slate-200 via-zinc-200 to-stone-200",
      "from-sky-200 via-cyan-200 to-teal-200",
      "from-emerald-200 via-lime-200 to-yellow-200",
      "from-violet-200 via-indigo-200 to-blue-200",
      "from-fuchsia-200 via-pink-200 to-rose-200",
      "from-blue-200 via-sky-200 to-cyan-200",
      "from-emerald-100 via-teal-100 to-cyan-100",
      "from-orange-200 via-amber-200 to-yellow-200",
      "from-rose-200 via-orange-200 to-amber-200",
      "from-stone-100 via-amber-100 to-rose-100",
      "from-teal-200 via-cyan-200 to-sky-200",
      "from-amber-100 via-orange-100 to-rose-100",
      "from-cyan-200 via-sky-200 to-blue-200",
      "from-zinc-200 via-stone-200 to-amber-200",
      "from-lime-100 via-emerald-100 to-teal-100",
      "from-rose-100 via-pink-100 to-fuchsia-100",
      "from-sky-100 via-blue-100 to-indigo-100",
      "from-stone-200 via-orange-100 to-amber-100",
      "from-indigo-200 via-blue-200 to-sky-200",
      "from-indigo-200 via-violet-200 to-fuchsia-200",
      "from-amber-100 via-rose-100 to-pink-100",
      "from-cyan-100 via-sky-100 to-blue-100",
      "from-emerald-200 via-green-200 to-lime-200",
      "from-yellow-100 via-amber-100 to-orange-100",
      "from-emerald-100 via-teal-100 to-cyan-100",
      "from-rose-200 via-pink-200 to-red-200" >>


(***************************************************************************)
(* main() of sync-examples.mjs: the output file and the overview page      *)
(***************************************************************************)
SITE_ORIGIN == "https://maplibre.org"
PREVIEW_PREFIX == SITE_ORIGIN \o "/maplibre-gl-js/docs/assets/examples/"

\* A JSON value as JSON.parse returns it: its type and, for a string or a
\* number, its text.
JUndefined == [t |-> "undefined", v |-> ""]
JNull == [t |-> "null", v |-> ""]
JString(s) == [t |-> "string", v |-> s]
JNumber(s) == [t |-> "number", v |-> s]

\* JavaScript truthiness of a JSON value.
Truthy(x) ==
    \/ x.t = "string" /\ x.v # ""
    \/ x.t = "number" /\ x.v # "0"

\* An element of the examples array of a file: an object with the fields of
\* an entry (JUndefined where the object has no such field), or null.
EntryFields ==
    {"title", "description", "titleCn", "descriptionCn", "level", "tag", "slug",
     "url", "preview", "accent", "codeLang"}
NullElement == [f \in EntryFields \cup {"t"} |-> IF f = "t" THEN "null" ELSE JUndefined]
PriorEntry(slug, titleCn, descriptionCn) ==
    [f \in EntryFields \cup {"t"} |->
        CASE f = "t" -> "object"
          [] f = "slug" -> slug
          [] f = "titleCn" -> titleCn
          [] f = "descriptionCn" -> descriptionCn
          [] OTHER -> JUndefined]

\* JSON.parse(JSON.stringify(example)) of an entry of examples: every field
\* of an entry is a string.
JsonEntry(example) ==
    [f \in EntryFields \cup {"t"} |-> IF f = "t" THEN "object" ELSE JString(example[f])]

\* The file src/data/examples.json: absent, unreadable, text that is not
\* JSON (invalid), a file whose writing did not finish (partial), or JSON
\* text; for JSON text the type of the document, the type of its examples
\* member, the elements of examples when that is an array, and
\* meta.lastSynced.
FileOf(kind, top, list, items) ==
    [kind |-> kind, top |-> top, list |-> list, items |-> items, lastSynced |-> ""]
AbsentFile == FileOf("absent", "", "", <<>>)
PartialFile == FileOf("partial", "", "", <<>>)
JsonFile(items) == FileOf("json", "object", "array", items)

\* JSON.stringify(output, null, 2) as the text of the file.
stringify(output) ==
    [kind |-> "json", top |-> "object", list |-> "array",
     items |-> [k \in 1..Len(output.examples) |-> JsonEntry(output.examples[k])],
     lastSynced |-> output.meta.lastSynced]

\* The files a run may find: the outputs of earlier runs are reached by
\* running; these are the absent, damaged and hand-edited ones.
PriorFiles ==
    { AbsentFile,
      FileOf("unreadable", "", "", <<>>),
      FileOf("invalid", "", "", <<>>),
      FileOf("json", "null", "", <<>>),
      FileOf("json", "object", "undefined", <<>>),
      FileOf("json", "object", "number", <<>>),
      JsonFile(<<NullElement>>),
      JsonFile(<<PriorEntry(JString("add-a-marker"), JNumber("123"), JUndefined)>>),
      JsonFile(<<PriorEntry(JString("add-a-marker"), JString("高级梇记"), JNumber("7"))>>),
      JsonFile(<<PriorEntry(JString("add-a-marker"), JString("高级梇记"),
                            JString("Add map markers"))>>),
      JsonFile(<<PriorEntry(JString("add-a-marker"), JString(""), JString("交互禺例"))>>),
      JsonFile(<<PriorEntry(JString("add-a-marker"), JString("Custom marker"), JNull)>>),
      JsonFile(<<PriorEntry(JString("display-a-map"), JString("高级垰图禺例"), JString("交互禺例"))>>),
      JsonFile(<<PriorEntry(JString("add-a-marker"), JString("高级梇记"), JString("交互禺例")),
                 PriorEntry(JString("add-a-marker"), JString("垰图梇记"), JUndefined)>>),
      JsonFile(<<PriorEntry(JString("display-a-map"), JString("高级垰图禺例"), JUndefined),
                 NullElement,
                 PriorEntry(JString("add-a-marker"), JUndefined, JString("添加梇记禺例"))>>),
      JsonFile(<<PriorEntry(JNumber("5"), JString("高级梇记"), JString("交互禺例")),
                 PriorEntry(JString("Add-Marker"), JString("垰图梇记"), JString("添加梇记禺例"))>>) }

\* Pieces of overview pages: a link to an example; a section with a noise
\* paragraph before its description; a link whose target has capitals;
\* targets that are not slug-shaped and a section whose target has no
\* trailing slash; a section with an empty title and no description; a list
\* that links to an example twice; links whose slugs have the tokens that
\* humanizeSlug renders in a fixed way.
Fragments ==
    << "<a href=\"add-a-marker/\">Add a marker</a>",
       "<h2 id=\"display-a-map\"><a href=\"display-a-map/\">Display a map</a></h2>"
           \o "<p><img src=\"a.webp\">Shot</p><p>Initialize a map in an HTML element.</p>",
       "<a href=\"Add-Marker/\">Add marker</a>",
       "<link href=\"main.css\"><a href=\"../plugins/\">Plugins</a>"
           \o "<h2 id=\"terrain\"><a href=\"terrain\">3D terrain</a></h2>"
           \o "<p>Go beyond hillshade.</p>",
       "<h2 id=\"fly-to\"><a href=\"fly-to/\"><b></b></a></h2>"
           \o "<p><iframe src=\"x\"></iframe></p>",
       "<a href=\"display-a-map/\">Display a map</a>"
           \o "<a href=\"add-a-marker/\">Add a marker</a>"
           \o "<a href=\"display-a-map/\">Display a map again</a>",
       "<a href=\"add-a-3d-model/\">Add a 3D model</a>"
           \o "<a href=\"pmtiles-webgl-gl/\">PMTiles</a>" >>

\* The overview pages: up to MaxFragments pieces, one after the other.
RECURSIVE PagesOf(_)
PagesOf(n) ==
    IF n = 0 THEN {""}
    ELSE PagesOf(n - 1) \cup
         {p \o Fragments[k] : p \in PagesOf(n - 1), k \in 1..Len(Fragments)}
Pages == PagesOf(MaxFragments)
NoPage == "(none)"

\* new Date().toISOString().slice(0, 10) on the days the runs happen.
Days == <<"2025-01-01", "2025-01-02">>

(***************************************************************************)
(* Values computed once.  The functions of the script are pure: over the   *)
(* pages, entries and texts of the model each is tabulated once and looked *)
(* up afterwards.                                                          *)
(***************************************************************************)
Range(seq) == {seq[k] : k \in 1..Len(seq)}
Lookup(table, key) == (CHOOSE pair \in table : pair[1] = key)[2]

\* Lines 160-241 for each page of the model.
parsedPages == {<<page, parseOverview(page)>> : page \in Pages}
sourceEntriesOf(page) == Lookup(parsedPages, page)
knownEntries == UNION {Range(pair[2]) : pair \in parsedPages}

\* const title = entry.title || humanizeSlug(slug);
SectionTitleOnly(entry) == entry.title
titleOf(entry) == IF entry.title # "" THEN entry.title ELSE humanizeSlug(entry.slug)
\* const description = entry.description || "MapLibre GL JS example.";
descriptionOf(entry) ==
    IF entry.description # "" THEN entry.description ELSE GenericDescription

\* The fields of an entry of examples that do not depend on the prior file:
\* lines 474-477 and the second branches of lines 480-485.
generateFrom(title, description) ==
    [title |-> title,
     description |-> description,
     titleCn |-> translateTitle(title),
     descriptionCn |-> translateDescription(description),
     tag |-> classifyTag(title, description),
     level |-> classifyLevel(title, description)]
generate(entry) == generateFrom(titleOf(entry), descriptionOf(entry))
generatedEntries == {<<entry, generate(entry)>> : entry \in knownEntries}
generatedFor(entry) == Lookup(generatedEntries, entry)

\* translateTitle and translateDescription of the titles and descriptions
\* of the model's entries.
translatedTitle(title) ==
    Lookup({<<pair[2].title, pair[2].titleCn>> : pair \in generatedEntries}, title)
translatedDescription(description) ==
    Lookup({<<pair[2].description, pair[2].descriptionCn>> : pair \in generatedEntries},
           description)

\* The texts a file of the model can hold in titleCn or descriptionCn: those
\* of the prior files and those the script writes.
priorTexts ==
    UNION {{element[f].v : f \in {"titleCn", "descriptionCn"}} :
              element \in UNION {Range(f.items) : f \in PriorFiles}}
knownTexts ==
    priorTexts \cup UNION {{pair[2].titleCn, pair[2].descriptionCn} :
                              pair \in generatedEntries}
chineseTexts == {text \in knownTexts : isMostlyChinese(text)}
judgedChinese(text) == text \in chineseTexts

(***************************************************************************)
(* main() of sync-examples.mjs: the merge with the prior output            *)
(***************************************************************************)
\* if (example?.slug)
HasSlug(element) == element.t = "object" /\ Truthy(element.slug)

\* Lines 243-255: the elements that reach existingExamples.set, in order.
\* readFile or JSON.parse throws for a file that is not JSON text, reading
\* .examples of null throws, and for...of throws on a value that is not
\* iterable: the catch leaves the map empty.
existingExamples(f) ==
    IF f.kind = "json" /\ f.top = "object" /\ f.list = "array"
    THEN SelectSeq(f.items, HasSlug) ELSE <<>>

\* Map.set replaces the value of a key that is present: get returns the
\* element set last.
LastWins(hits) == Max(hits)

\* existingExamples.get(slug); undefined is an element with no field.
UndefinedElement ==
    [f \in EntryFields \cup {"t"} |-> IF f = "t" THEN "undefined" ELSE JUndefined]
mapGetFrom(map, hits) == IF hits = {} THEN UndefinedElement ELSE map[LastWins(hits)]
mapGet(map, slug) ==
    mapGetFrom(map, {k \in 1..Len(map) : map[k].slug = JString(slug)})

\* isMostlyChinese(value) for a value of the prior file: "true", "false", or
\* "TypeError" when value is truthy and has no replace method.
isMostlyChineseOf(value) ==
    IF ~Truthy(value) THEN "false"
    ELSE IF value.t # "string" THEN "TypeError"
    ELSE IF judgedChinese(value.v) THEN "true" ELSE "false"

\* isMostlyChinese(existing?.titleCn) and isMostlyChinese(existing?.descriptionCn)
judge(existing) ==
    [f \in {"titleCn", "descriptionCn"} |-> isMostlyChineseOf(existing[f])]

\* isMostlyChinese(existing?.titleCn) ? existing.titleCn : translateTitle(title)
AlwaysRegenerate(judged, kept, generated) == generated
mergeField(judged, kept, generated) == IF judged = "true" THEN kept ELSE generated

\* The first branch of the titleCn conditional: existing.titleCn
KeptTitleFromDescription(existing) == existing.descriptionCn.v
KeptTitleCn(existing) == existing.titleCn.v

\* const accent = accentPalette[index % accentPalette.length], and variants
\* for checking: one that depends on the day of the run, one that stays on
\* the last color.
accentByDay(index) == accentPalette[((index + today) % Len(accentPalette)) + 1]
accentClamped(index) == accentPalette[Min({index, Len(accentPalette) - 1}) + 1]
accentAt(index) == accentPalette[(index % Len(accentPalette)) + 1]

\* The object pushed to examples by one round of the loop of lines 471-499.
buildExample(slug, index, existing, judged, fresh) ==
    [title |-> fresh.title,
     description |-> fresh.description,
     titleCn |-> mergeField(judged.titleCn, KeptTitleCn(existing), fresh.titleCn),
     descriptionCn |-> mergeField(judged.descriptionCn, existing.descriptionCn.v,
                                  fresh.descriptionCn),
     level |-> fresh.level,
     tag |-> fresh.tag,
     slug |-> slug,
     url |-> OVERVIEW_URL \o slug \o "/",
     preview |-> PREVIEW_PREFIX \o slug \o ".webp",
     accent |-> accentAt(index),
     codeLang |-> "html"]

\* One round of the loop: whether it throws, and the object it pushes if not.
roundOf(entry, index, existing, judged) ==
    [threw |-> \E f \in DOMAIN judged : judged[f] = "TypeError",
     example |-> buildExample(entry.slug, index, existing, judged, generatedFor(entry))]
roundWith(entry, index, existing) == roundOf(entry, index, existing, judge(existing))

\* The loop of lines 471-499 over sourceEntries.
buildLoop(entries, map) ==
    [k \in 1..Len(entries) |-> roundWith(entries[k], k - 1, mapGet(map, entries[k].slug))]

\* What the prior run left for the next: nothing before the first run.
NoRun == [ok |-> FALSE, examples |-> <<>>]

\* The values of main's variables while no run is in progress.
IdleMain ==
    /\ pc = "idle"
    /\ file = AbsentFile
    /\ served = NoPage
    /\ overviewHtml = ""
    /\ sourceEntries = <<>>
    /\ examples = <<>>
    /\ failure = ""
    /\ exitCode = -1
    /\ runs = 0
    /\ fileAtStart = AbsentFile
    /\ prevRun = NoRun
    /\ today = 1

\* The frame of a call of fetchWithRetry is gone once its caller has the result.
ForgetFetch ==
    /\ script' = "examples"
    /\ url' = OVERVIEW_URL
    /\ attempts' = OverviewAttempts
    /\ attempt' = 0
    /\ fpc' = "idle"
    /\ lastError' = NoError
    /\ remote' = NoRemote
    /\ timers' = {}
    /\ nFetch' = 0
    /\ delays' = <<>>

\* main(): const overviewResponse = await fetchWithRetry(OVERVIEW_URL, 4)
Main ==
    /\ UNCHANGED <<snippetVars, pickVars, callVars, pageVars>>
    /\ pc = "start"
    /\ CallFetch("examples", OVERVIEW_URL, OverviewAttempts)
    /\ pc' = "fetching"
    /\ UNCHANGED <<file, served, overviewHtml, sourceEntries, examples, failure,
                   exitCode, runs, fileAtStart, prevRun, today>>

\* fetchWithRetry returned: await overviewResponse.text() begins.
OverviewFetched ==
    /\ UNCHANGED <<snippetVars, pickVars, callVars, pageVars>>
    /\ pc = "fetching"
    /\ fpc = "returned"
    /\ ForgetFetch
    /\ pc' = "body"
    /\ UNCHANGED <<file, served, overviewHtml, sourceEntries, examples, failure,
                   exitCode, runs, fileAtStart, prevRun, today>>

\* Where main goes when fetchWithRetry threw: the await rethrows, main rejects.
ContinueWithoutPage == "body"
AfterFetchFailure == "rejected"

\* fetchWithRetry threw.
OverviewFailed ==
    /\ UNCHANGED <<snippetVars, pickVars, callVars, pageVars>>
    /\ pc = "fetching"
    /\ fpc = "thrown"
    /\ pc' = AfterFetchFailure
    /\ failure' = "fetch"
    /\ UNCHANGED fetchVars
    /\ UNCHANGED <<file, served, overviewHtml, sourceEntries, examples,
                   exitCode, runs, fileAtStart, prevRun, today>>

\* text() resolves with the page the remote serves; lines 160-241 run, then
\* await fs.readFile begins.
BodyRead ==
    /\ UNCHANGED <<snippetVars, pickVars, callVars, pageVars>>
    /\ pc = "body"
    /\ \E page \in (IF served = NoPage THEN Pages ELSE {served}) :
          /\ served' = page
          /\ overviewHtml' = page
          /\ sourceEntries' = sourceEntriesOf(page)
    /\ pc' = "reading"
    /\ UNCHANGED fetchVars
    /\ UNCHANGED <<file, examples, failure, exitCode, runs, fileAtStart, prevRun, today>>

\* text() rejects (the connection breaks while the body arrives).
BodyFails ==
    /\ UNCHANGED <<snippetVars, pickVars, callVars, pageVars>>
    /\ pc = "body"
    /\ pc' = "rejected"
    /\ failure' = "body"
    /\ UNCHANGED fetchVars
    /\ UNCHANGED <<file, served, overviewHtml, sourceEntries, examples,
                   exitCode, runs, fileAtStart, prevRun, today>>

\* readFile settles; lines 246-507 run: the map of the prior entries, the
\* loop that builds examples, then await fs.mkdir begins. A TypeError of the
\* loop is outside the try block: main rejects.
ReadExisting ==
    /\ UNCHANGED <<snippetVars, pickVars, callVars, pageVars>>
    /\ pc = "reading"
    /\ \E rounds \in {buildLoop(sourceEntries, existingExamples(file))} :
          IF \E k \in 1..Len(rounds) : rounds[k].threw
          THEN /\ pc' = "rejected"
               /\ failure' = "TypeError"
               /\ UNCHANGED examples
          ELSE /\ pc' = "mkdir"
               /\ examples' = [k \in 1..Len(rounds) |-> rounds[k].example]
               /\ UNCHANGED failure
    /\ UNCHANGED fetchVars
    /\ UNCHANGED <<file, served, overviewHtml, sourceEntries, exitCode, runs,
                   fileAtStart, prevRun, today>>

\* fs.mkdir resolves; fs.writeFile begins.
MkdirDone ==
    /\ UNCHANGED <<snippetVars, pickVars, callVars, pageVars>>
    /\ pc = "mkdir"
    /\ pc' = "open"
    /\ UNCHANGED fetchVars
    /\ UNCHANGED <<file, served, overviewHtml, sourceEntries, examples, failure,
                   exitCode, runs, fileAtStart, prevRun, today>>

\* fs.mkdir rejects.
MkdirFails ==
    /\ UNCHANGED <<snippetVars, pickVars, callVars, pageVars>>
    /\ pc = "mkdir"
    /\ pc' = "rejected"
    /\ failure' = "mkdir"
    /\ UNCHANGED fetchVars
    /\ UNCHANGED <<file, served, overviewHtml, sourceEntries, examples,
                   exitCode, runs, fileAtStart, prevRun, today>>

\* fs.writeFile opens the output file itself for writing, which truncates it.
WriteOpen ==
    /\ UNCHANGED <<snippetVars, pickVars, callVars, pageVars>>
    /\ pc = "open"
    /\ pc' = "writing"
    /\ file' = PartialFile
    /\ UNCHANGED fetchVars
    /\ UNCHANGED <<served, overviewHtml, sourceEntries, examples, failure,
                   exitCode, runs, fileAtStart, prevRun, today>>

\* The last byte is written; main resolves and the process ends with status 0.
WriteEnd ==
    /\ UNCHANGED <<snippetVars, pickVars, callVars, pageVars>>
    /\ pc = "writing"
    /\ pc' = "done"
    /\ file' = stringify([meta |-> [source |-> OVERVIEW_URL, lastSynced |-> Days[today]],
                          examples |-> examples])
    /\ exitCode' = 0
    /\ UNCHANGED fetchVars
    /\ UNCHANGED <<served, overviewHtml, sourceEntries, examples, failure,
                   runs, fileAtStart, prevRun, today>>

\* fs.writeFile rejects: the open fails, or a write after it.
WriteFails ==
    /\ UNCHANGED <<snippetVars, pickVars, callVars, pageVars>>
    /\ pc \in {"open", "writing"}
    /\ pc' = "rejected"
    /\ failure' = "write"
    /\ UNCHANGED fetchVars
    /\ UNCHANGED <<file, served, overviewHtml, sourceEntries, examples,
                   exitCode, runs, fileAtStart, prevRun, today>>

\* main().catch((error) => { console.error(error); process.exit(1); })
Exit ==
    /\ UNCHANGED <<snippetVars, pickVars, callVars, pageVars>>
    /\ pc = "rejected"
    /\ pc' = "exited"
    /\ exitCode' = 1
    /\ UNCHANGED fetchVars
    /\ UNCHANGED <<file, served, overviewHtml, sourceEntries, examples, failure,
                   runs, fileAtStart, prevRun, today>>

\* The script is started again, the same day or the next, against the same page.
NextRun ==
    /\ UNCHANGED <<snippetVars, pickVars, callVars, pageVars>>
    /\ pc \in {"done", "exited"}
    /\ runs < MaxRuns
    /\ runs' = runs + 1
    /\ pc' = "start"
    /\ ForgetFetch
    /\ overviewHtml' = ""
    /\ sourceEntries' = <<>>
    /\ examples' = <<>>
    /\ failure' = ""
    /\ exitCode' = -1
    /\ fileAtStart' = file
    /\ prevRun' = [ok |-> pc = "done", examples |-> examples]
    /\ today' \in {d \in {today, today + 1} : d <= Len(Days)}
    /\ UNCHANGED <<file, served>>

(***************************************************************************)
(* Spec: runs of the Catalog Synchronizer, one after the other.            *)
(***************************************************************************)
Init ==
    /\ script = "examples"
    /\ url = OVERVIEW_URL
    /\ attempts = OverviewAttempts
    /\ attempt = 0
    /\ fpc = "idle"
    /\ lastError = NoError
    /\ remote = NoRemote
    /\ timers = {}
    /\ nFetch = 0
    /\ delays = <<>>
    /\ pc = "start"
    /\ file \in PriorFiles
    /\ served = NoPage
    /\ overviewHtml = ""
    /\ sourceEntries = <<>>
    /\ examples = <<>>
    /\ failure = ""
    /\ exitCode = -1
    /\ runs = 1
    /\ fileAtStart = file
    /\ prevRun = NoRun
    /\ today = 1
    /\ IdleSnippets
    /\ IdlePick
    /\ IdleCall
    /\ IdlePage

Next ==
    \/ Main
    \/ Send
    \/ RespondOk
    \/ RespondStatus
    \/ RespondThrow
    \/ Wake
    \/ OverviewFetched
    \/ OverviewFailed
    \/ BodyRead
    \/ BodyFails
    \/ ReadExisting
    \/ MkdirDone
    \/ MkdirFails
    \/ WriteOpen
    \/ WriteEnd
    \/ WriteFails
    \/ Exit
    \/ NextRun

Spec == Init /\ [][Next]_vars

(***************************************************************************)
(* SpecFetch: one call of fetchWithRetry, of either script, on its own.    *)
(***************************************************************************)
InitFetch ==
    /\ script \in {"examples", "snippets"}
    /\ url \in Urls
    /\ attempts \in 1..MaxAttempts
    /\ attempt = 0
    /\ fpc = "try"
    /\ lastError = NoError
    /\ remote = NoRemote
    /\ timers = {}
    /\ nFetch = 0
    /\ delays = <<>>
    /\ IdleMain
    /\ IdleSnippets
    /\ IdlePick
    /\ IdleCall
    /\ IdlePage

NextFetch ==
    \/ Send
    \/ RespondOk
    \/ RespondStatus
    \/ RespondThrow
    \/ TimerFires
    \/ StaleTimerFires
    \/ Wake

SpecFetch == InitFetch /\ [][NextFetch]_vars

(***************************************************************************)
(* sync-snippets.mjs: toPlainCode, extractCodeBlocks, pickSnippet          *)
(***************************************************************************)
\* The end (exclusive) of a match of /<br\s*\/?>/i whose "<br" is read and
\* whose white space ends at e, 0 if there is none.
BrClose(s, e) ==
    IF LitAt(s, e, ">", FALSE) THEN e + 1
    ELSE IF LitAt(s, e, "/>", FALSE) THEN e + 2 ELSE 0
BrEnd(s, k) == IF LitAt(s, k, "<br", TRUE) THEN BrClose(s, SpaceRunEnd(s, k + 3)) ELSE 0

\* html.replace(/<br\s*\/?>/gi, "\n"), from position i on
RECURSIVE replaceBr(_, _)
replaceBr(html, i) ==
    LET hits == {k \in i..Len(html) : BrEnd(html, k) > 0} IN
    IF hits = {} THEN SubSeq(html, i, Len(html))
    ELSE SubSeq(html, i, Min(hits) - 1) \o "\n" \o replaceBr(html, BrEnd(html, Min(hits)))

\* text.replace(/\r\n/g, "\n"), from position i on
RECURSIVE normalizeLines(_, _)
normalizeLines(text, i) ==
    LET at == IndexOf(text, "\r\n", i, FALSE) IN
    IF at = 0 THEN SubSeq(text, i, Len(text))
    ELSE SubSeq(text, i, at - 1) \o "\n" \o normalizeLines(text, at + 2)

toPlainCode(html) ==
    normalizeLines(decodeEntities(removeTags(replaceBr(html, 1), 1)), 1)

\* attrs.match(/class="([^"]+)"/i): the first class="..." with a value that
\* is not empty; lang is its value, "" if there is none.
ClassValueEnd(attrs, k) ==
    IF LitAt(attrs, k, "class=\"", TRUE) THEN IndexOf(attrs, "\"", k + 7, FALSE) ELSE 0
langOf(attrs) ==
    LET hits == {k \in 1..Len(attrs) : ClassValueEnd(attrs, k) > k + 7} IN
    IF hits = {} THEN ""
    ELSE SubSeq(attrs, Min(hits) + 7, ClassValueEnd(attrs, Min(hits)) - 1)

\* A match of \s*<code([^>]*)>([\s\S]*?)<\/code>\s*<\/pre> that starts at
\* position p: the lazy body ends at the first </code> that white space and
\* </pre> follow.
NoCode == [found |-> FALSE, attrs |-> "", inner |-> "", end |-> 0]
CodeClosings(html, from) ==
    {j \in from..Len(html) :
        /\ LitAt(html, j, "</code>", TRUE)
        /\ LitAt(html, SpaceRunEnd(html, j + 7), "</pre>", TRUE)}
CodeBody(html, c, g, closings) ==
    IF closings = {} THEN NoCode
    ELSE [found |-> TRUE,
          attrs |-> SubSeq(html, c + 5, g - 1),
          inner |-> SubSeq(html, g + 1, Min(closings) - 1),
          end |-> SpaceRunEnd(html, Min(closings) + 7) + 6]
CodeOpen(html, c, g) ==
    IF g = 0 THEN NoCode ELSE CodeBody(html, c, g, CodeClosings(html, g + 1))
CodeFrom(html, c) ==
    IF LitAt(html, c, "<code", TRUE)
    THEN CodeOpen(html, c, IndexOf(html, ">", c + 5, FALSE)) ELSE NoCode
CodeMatchAt(html, p) == CodeFrom(html, SpaceRunEnd(html, p))

\* The optional group (?:\s*<span[^>]*>.*?<\/span>)? taken: the ends of the
\* </span> that close it on the line of the <span ...>, for which the rest of
\* the pattern matches; the lazy .*? stops at the first of them.
SpanEnds(html, g) ==
    {e \in (g + 1)..Len(html) :
        /\ LitAt(html, e, "</span>", TRUE)
        /\ \A k \in (g + 1)..(e - 1) : CharAt(html, k) \notin {"\n", "\r"}
        /\ CodeMatchAt(html, e + 7).found}
SpanThenCode(html, p, ends) ==
    IF ends = {} THEN CodeMatchAt(html, p) ELSE CodeMatchAt(html, Min(ends) + 7)
SpanOpen(html, p, g) ==
    IF g = 0 THEN CodeMatchAt(html, p) ELSE SpanThenCode(html, p, SpanEnds(html, g))
SpanFrom(html, p, s) ==
    IF LitAt(html, s, "<span", TRUE)
    THEN SpanOpen(html, p, IndexOf(html, ">", s + 5, FALSE)) ELSE CodeMatchAt(html, p)

\* A match of codeRegex whose <pre stands at position i.
PreOpen(html, g) ==
    IF g = 0 THEN NoCode ELSE SpanFrom(html, g + 1, SpaceRunEnd(html, g + 1))
PreAt(html, i) ==
    IF LitAt(html, i, "<pre", TRUE)
    THEN PreOpen(html, IndexOf(html, ">", i + 4, FALSE)) ELSE NoCode

\* if (code) blocks.push({ lang, code })
pushBlock(lang, code) == IF code # "" THEN <<[lang |-> lang, code |-> code]>> ELSE <<>>

\* extractCodeBlocks: codeRegex.exec(html) from lastIndex on, until null.
RECURSIVE blocksFrom(_, _)
blocksWith(html, match) ==
    pushBlock(langOf(match.attrs), trim(toPlainCode(match.inner)))
        \o blocksFrom(html, match.end)
blocksAt(html, starts) ==
    IF starts = {} THEN <<>> ELSE blocksWith(html, PreAt(html, Min(starts)))
blocksFrom(html, lastIndex) ==
    blocksAt(html, {i \in lastIndex..Len(html) : PreAt(html, i).found})
extractCodeBlocks(html) == blocksFrom(html, 1)

\* The bonuses of pickSnippet.
DoctypeBonus == 5000
LibraryBonus == 2000
HtmlHintBonus == 1000
ScriptHintBonus == 500

\* /language-(js|javascript|ts|typescript)/i.test(lang)
ScriptHints == {"language-js", "language-javascript", "language-ts", "language-typescript"}
ScriptHint(lang) == \E hint \in ScriptHints : Contains(lang, hint, TRUE)

Bonus(test, bonus) == IF test THEN bonus ELSE 0
scoreOf(block) ==
    Len(block.code)
        + Bonus(Contains(block.code, "<!doctype html>", TRUE), DoctypeBonus)
        + Bonus(Contains(block.code, "maplibregl", TRUE), LibraryBonus)
        + Bonus(Contains(block.lang, "language-html", TRUE), HtmlHintBonus)
        + Bonus(ScriptHint(block.lang), ScriptHintBonus)

\* scored.sort((a, b) => b.score - a.score)[0]: the sort is stable, the
\* element it puts first is the first of those with the highest score.
LastOfBest(best) == Max(best)
FirstOfBest(best) == Min(best)
bestOf(scores, top) == FirstOfBest({k \in 1..Len(scores) : scores[k] = top})
bestIndex(scores) == bestOf(scores, Max(Range(scores)))

\* pickSnippet: null when blocks is empty, else the code of scored[0].
pickSnippet(list) ==
    IF Len(list) = 0 THEN JNull
    ELSE JString(list[bestIndex([k \in 1..Len(list) |-> scoreOf(list[k])])].code)

(***************************************************************************)
(* main() of sync-snippets.mjs: the dataset, the pages and the directory   *)
(***************************************************************************)
EXAMPLES_PATH == "src/data/examples.json"
OUTPUT_DIR == "public/snippets"
batchSize == 6

\* path.join(outputDir, `${slug}.html`)
outputPath(slug) == OUTPUT_DIR \o "/" \o slug.v \o ".html"

\* An entry of the dataset with a slug and a url.
ExampleUrl(name) == OVERVIEW_URL \o name \o "/"
DatasetEntry(slug, link) ==
    [f \in EntryFields \cup {"t"} |->
        CASE f = "t" -> "object"
          [] f = "slug" -> slug
          [] f = "url" -> link
          [] OTHER -> JUndefined]
Listed(name) == DatasetEntry(JString(name), JString(ExampleUrl(name)))

\* The names of a dataset with more entries than one batch holds.
LongList ==
    <<"add-a-marker", "display-a-map", "fly-to", "add-a-3d-model", "animate-a-line",
      "cluster", "geocoder">>
MIRROR_URL == "https://example.org/mirror/add-a-marker.html"

\* The datasets a run may find: absent, not JSON, null, without examples,
\* examples that is not a list, and lists: two entries; an entry whose page
\* has no code, entries without slug or without url; two entries with one
\* slug; a null element; a number as slug; more entries than one batch.
Datasets ==
    { AbsentFile,
      PartialFile,
      FileOf("json", "null", "", <<>>),
      FileOf("json", "object", "undefined", <<>>),
      FileOf("json", "object", "number", <<>>),
      JsonFile(<<Listed("add-a-marker"), Listed("display-a-map")>>),
      JsonFile(<<Listed("fly-to"),
                 DatasetEntry(JString(""), JString(ExampleUrl("cluster"))),
                 DatasetEntry(JString("cluster"), JUndefined),
                 DatasetEntry(JUndefined, JString("")),
                 DatasetEntry(JString("geocoder"), JNull),
                 Listed("display-a-map")>>),
      JsonFile(<<Listed("add-a-marker"),
                 DatasetEntry(JString("add-a-marker"), JString(MIRROR_URL))>>),
      JsonFile(<<DatasetEntry(JUndefined, JUndefined), NullElement, Listed("cluster")>>),
      JsonFile(<<DatasetEntry(JNumber("5"), JString(ExampleUrl("cluster")))>>),
      JsonFile([k \in 1..Len(LongList) |-> Listed(LongList[k])]) }

\* What the remote serves at a url: a page with a script block, named by a
\* span, and a longer HTML block; a page with one script block; a page whose
\* only block is empty once converted; a page without a block; elsewhere a
\* page with one block that names the url.
RemotePage(link) ==
    CASE link = ExampleUrl("add-a-marker") ->
            "<h1>Add a marker</h1><pre><span class=\"filename\">main.js</span>"
              \o "<code class=\"language-js\">new maplibregl.Marker();</code></pre>"
              \o "<pre><code class=\"language-html\">&lt;!DOCTYPE html&gt;<br>"
              \o "&lt;div id=&quot;map&quot;&gt;&lt;/div&gt;\r\n</code>\n</pre>"
      [] link = ExampleUrl("display-a-map") ->
            "<pre><code class=\"language-js\">const map = new maplibregl.Map();</code></pre>"
      [] link = ExampleUrl("fly-to") ->
            "<pre><code class=\"language-html\"> <br/><span></span> </code></pre>"
      [] link = ExampleUrl("cluster") -> "<h1>Cluster</h1><pre>no code element</pre>"
      [] OTHER -> "<pre><code>// " \o link \o "</code></pre>"

\* The urls of the datasets and, for each, pickSnippet(extractCodeBlocks(html))
\* of the page served there.
DatasetUrls ==
    {element.url.v : element \in UNION {Range(f.items) : f \in Datasets}} \ {""}
extractedBlocks == {<<link, extractCodeBlocks(RemotePage(link))>> : link \in DatasetUrls}
blocksAtUrl(link) == Lookup(extractedBlocks, link)
pickedSnippets == {<<pair[1], pickSnippet(pair[2])>> : pair \in extractedBlocks}
snippetAt(link) == Lookup(pickedSnippets, link)

\* A file of public/snippets: none, one an earlier hand or run left whole,
\* one whose writing did not finish, one this script wrote.
NoFile == [exists |-> FALSE, whole |-> FALSE, text |-> ""]
OldFile == [exists |-> TRUE, whole |-> TRUE, text |-> "<!-- kept -->"]
TornFile == [exists |-> TRUE, whole |-> FALSE, text |-> ""]
WrittenFile(text) == [exists |-> TRUE, whole |-> TRUE, text |-> text]

\* The paths of the model.
SlugOf(element) == element.slug
Paths ==
    {outputPath(SlugOf(element)) :
        element \in {e \in UNION {Range(f.items) : f \in Datasets} : Truthy(e.slug)}}

\* Lines 90-99: the tasks and the count of skipped entries after the
\* elements from position k on; reading .slug of null throws.
NoTasks == [tasks |-> <<>>, skipped |-> 0, threw |-> FALSE]
PushAnyway(element) == TRUE
HasSlugAndUrl(element) == Truthy(element.slug) /\ Truthy(element.url)
taskOf(element) ==
    [slug |-> element.slug.v, url |-> element.url.v, outputPath |-> outputPath(element.slug)]
tasksWith(built, element) ==
    IF element.t # "object" THEN [built EXCEPT !.threw = TRUE]
    ELSE IF HasSlugAndUrl(element)
         THEN [built EXCEPT !.tasks = Append(built.tasks, taskOf(element))]
         ELSE [built EXCEPT !.skipped = built.skipped + 1]
RECURSIVE tasksFrom(_, _, _)
tasksFrom(items, k, built) ==
    IF k > Len(items) \/ built.threw THEN built
    ELSE tasksFrom(items, k + 1, tasksWith(built, items[k]))
buildTasks(items) == tasksFrom(items, 1, NoTasks)

\* JSON.parse(await fs.readFile(examplesPath, "utf8")) throws for a file that
\* is absent or not JSON text; data.examples throws for null; for...of
\* throws for a value that is neither undefined (?? []) nor a list.
readFails(f) ==
    IF f.kind # "json" THEN "read"
    ELSE IF f.top # "object" THEN "TypeError"
    ELSE IF f.list \notin {"array", "undefined"} THEN "TypeError" ELSE ""
examplesOf(f) == IF f.list = "array" THEN f.items ELSE <<>>

(***************************************************************************)
(* main() of sync-snippets.mjs                                             *)
(***************************************************************************)
\* The tasks of a run are known by their position in tasks; pending holds
\* positions.  A task is "queued" until its batch starts, then "fetching"
\* (in fetchWithRetry(task.url, 4, 15000), modelled step by step under
\* SpecFetch), "text" (in response.text()), "writing" (in fs.writeFile),
\* and in the end "fulfilled" or "rejected"; "skipped" when its file exists.
Settled == {"fulfilled", "rejected"}

restOfSnippets == <<fetchVars, mainVars, pickVars, callVars, pageVars>>

\* await fs.mkdir(outputDir, { recursive: true })
MakeDir ==
    /\ spc = "start"
    /\ spc' = "read"
    /\ UNCHANGED <<dir, tasks, pending, offset, progress, created, skipped, failed,
                   crash, status, requested, wrote, faults, passes, dirAtStart,
                   prevReport>>
    /\ UNCHANGED restOfSnippets

MakeDirFails ==
    /\ spc = "start"
    /\ faults < MaxFaults
    /\ faults' = faults + 1
    /\ spc' = "rejected"
    /\ crash' = "mkdir"
    /\ UNCHANGED <<dir, tasks, pending, offset, progress, created, skipped, failed,
                   status, requested, wrote, passes, dirAtStart, prevReport>>
    /\ UNCHANGED restOfSnippets

\* Lines 83-99: the dataset is read and the tasks are built.
ReadDataset ==
    /\ spc = "read"
    /\ IF readFails(file) # ""
       THEN /\ spc' = "rejected"
            /\ crash' = readFails(file)
            /\ UNCHANGED <<tasks, skipped, progress>>
       ELSE \E built \in {buildTasks(examplesOf(file))} :
               /\ tasks' = built.tasks
               /\ skipped' = built.skipped
               /\ progress' = [k \in 1..Len(built.tasks) |-> "queued"]
               /\ spc' = IF built.threw THEN "rejected" ELSE "check"
               /\ crash' = IF built.threw THEN "TypeError" ELSE crash
    /\ UNCHANGED <<dir, pending, offset, created, failed, status, requested, wrote,
                   faults, passes, dirAtStart, prevReport>>
    /\ UNCHANGED restOfSnippets

\* await fs.access(task.outputPath) resolves.
NeverFound(found) == FALSE
FileFound(found) == found.exists

\* Lines 101-111: the positions of the tasks pushed to pending, from k on.
RECURSIVE pendingFrom(_, _, _)
pendingFrom(list, files, k) ==
    IF k > Len(list) THEN <<>>
    ELSE (IF FileFound(files[list[k].outputPath]) THEN <<>> ELSE <<k>>)
             \o pendingFrom(list, files, k + 1)

\* The loop of lines 101-111; nothing else runs between its awaits.
CheckFiles ==
    /\ spc = "check"
    /\ \E rest \in {pendingFrom(tasks, dir, 1)} :
          /\ pending' = rest
          /\ skipped' = skipped + (Len(tasks) - Len(rest))
          /\ progress' = [k \in 1..Len(tasks) |->
                            IF k \in Range(rest) THEN "queued" ELSE "skipped"]
    /\ spc' = "batch"
    /\ UNCHANGED <<dir, tasks, offset, created, failed, crash, status, requested,
                   wrote, faults, passes, dirAtStart, prevReport>>
    /\ UNCHANGED restOfSnippets

\* pending.slice(index, index + batchSize): the end of the slice.
SliceToEnd(from, size, len) == len
SliceEnd(from, size, len) == Min({from + size, len})
batchAt(list, from) == {list[j] : j \in (from + 1)..SliceEnd(from, batchSize, Len(list))}

\* Lines 115-118: batch.map starts every task of the batch; each runs to
\* its first await, inside fetchWithRetry, where its request is sent.
StartBatch ==
    /\ spc = "batch"
    /\ offset < Len(pending)
    /\ progress' = [k \in 1..Len(tasks) |->
                      IF k \in batchAt(pending, offset) THEN "fetching" ELSE progress[k]]
    /\ requested' = requested \cup batchAt(pending, offset)
    /\ spc' = "settling"
    /\ UNCHANGED <<dir, tasks, pending, offset, created, skipped, failed, crash,
                   status, wrote, faults, passes, dirAtStart, prevReport>>
    /\ UNCHANGED restOfSnippets

\* fetchWithRetry returned a response: response.text() begins.
TaskFetched(k) ==
    /\ progress[k] = "fetching"
    /\ progress' = [progress EXCEPT ![k] = "text"]
    /\ UNCHANGED <<spc, dir, tasks, pending, offset, created, skipped, failed, crash,
                   status, requested, wrote, faults, passes, dirAtStart, prevReport>>
    /\ UNCHANGED restOfSnippets

\* fetchWithRetry threw after its last attempt: the task rejects.
TaskFetchFails(k) ==
    /\ progress[k] = "fetching"
    /\ faults < MaxFaults
    /\ faults' = faults + 1
    /\ progress' = [progress EXCEPT ![k] = "rejected"]
    /\ UNCHANGED <<spc, dir, tasks, pending, offset, created, skipped, failed, crash,
                   status, requested, wrote, passes, dirAtStart, prevReport>>
    /\ UNCHANGED restOfSnippets

\* if (!snippet)
AlwaysSnippet(snippet) == FALSE
NoSnippet(snippet) == ~Truthy(snippet)

\* Lines 119-126: the body arrived; without a snippet the task throws, with
\* one fs.writeFile(task.outputPath, snippet) begins.
PageRead(k) ==
    /\ progress[k] = "text"
    /\ IF NoSnippet(snippetAt(tasks[k].url))
       THEN /\ progress' = [progress EXCEPT ![k] = "rejected"]
            /\ UNCHANGED wrote
       ELSE /\ progress' = [progress EXCEPT ![k] = "writing"]
            /\ wrote' = wrote \cup {k}
    /\ UNCHANGED <<spc, dir, tasks, pending, offset, created, skipped, failed, crash,
                   status, requested, faults, passes, dirAtStart, prevReport>>
    /\ UNCHANGED restOfSnippets

\* response.text() rejects: the connection broke while the body was read.
PageReadFails(k) ==
    /\ progress[k] = "text"
    /\ faults < MaxFaults
    /\ faults' = faults + 1
    /\ progress' = [progress EXCEPT ![k] = "rejected"]
    /\ UNCHANGED <<spc, dir, tasks, pending, offset, created, skipped, failed, crash,
                   status, requested, wrote, passes, dirAtStart, prevReport>>
    /\ UNCHANGED restOfSnippets

\* fs.writeFile resolves: the file holds the snippet.
SnippetWritten(k) ==
    /\ progress[k] = "writing"
    /\ progress' = [progress EXCEPT ![k] = "fulfilled"]
    /\ dir' = [dir EXCEPT ![tasks[k].outputPath] = WrittenFile(snippetAt(tasks[k].url).v)]
    /\ UNCHANGED <<spc, tasks, pending, offset, created, skipped, failed, crash,
                   status, requested, wrote, faults, passes, dirAtStart, prevReport>>
    /\ UNCHANGED restOfSnippets

\* fs.writeFile rejects: it could not open the file, which is as it was, or
\* it opened the file (flag "w" creates or truncates it) and could not
\* write all of it.
SnippetWriteFails(k) ==
    /\ progress[k] = "writing"
    /\ faults < MaxFaults
    /\ faults' = faults + 1
    /\ progress' = [progress EXCEPT ![k] = "rejected"]
    /\ dir' \in {dir, [dir EXCEPT ![tasks[k].outputPath] = TornFile]}
    /\ UNCHANGED <<spc, tasks, pending, offset, created, skipped, failed, crash,
                   status, requested, wrote, passes, dirAtStart, prevReport>>
    /\ UNCHANGED restOfSnippets

\* Where main goes once the tasks of a batch have these outcomes:
\* Promise.allSettled resolves whatever they are.
RejectOnFailure(outcomes) == IF "rejected" \in outcomes THEN "rejected" ELSE "batch"
AfterBatch(outcomes) == "batch"

\* Lines 129-135: Promise.allSettled resolved, the results are counted and
\* the loop goes to the next batch.
BatchSettled ==
    /\ spc = "settling"
    /\ \A k \in batchAt(pending, offset) : progress[k] \in Settled
    /\ created' = created
          + Cardinality({k \in batchAt(pending, offset) : progress[k] = "fulfilled"})
    /\ failed' = failed
          + Cardinality({k \in batchAt(pending, offset) : progress[k] # "fulfilled"})
    /\ offset' = offset + batchSize
    /\ spc' = AfterBatch({progress[k] : k \in batchAt(pending, offset)})
    /\ UNCHANGED <<dir, tasks, pending, progress, skipped, crash, status, requested,
                   wrote, faults, passes, dirAtStart, prevReport>>
    /\ UNCHANGED restOfSnippets

\* Lines 138-140: the loop is over, the counts are logged, main resolves.
Report ==
    /\ spc = "batch"
    /\ offset >= Len(pending)
    /\ spc' = "done"
    /\ status' = 0
    /\ UNCHANGED <<dir, tasks, pending, offset, progress, created, skipped, failed,
                   crash, requested, wrote, faults, passes, dirAtStart, prevReport>>
    /\ UNCHANGED restOfSnippets

\* main().catch: console.error(error); process.exit(1)
SnippetsExit ==
    /\ spc = "rejected"
    /\ spc' = "exited"
    /\ status' = 1
    /\ UNCHANGED <<dir, tasks, pending, offset, progress, created, skipped, failed,
                   crash, requested, wrote, faults, passes, dirAtStart, prevReport>>
    /\ UNCHANGED restOfSnippets

\* The script is started again on the same dataset and directory.
NextPass ==
    /\ spc \in {"done", "exited"}
    /\ passes < MaxRuns
    /\ passes' = passes + 1
    /\ spc' = "start"
    /\ tasks' = <<>>
    /\ pending' = <<>>
    /\ offset' = 0
    /\ progress' = <<>>
    /\ created' = 0
    /\ skipped' = 0
    /\ failed' = 0
    /\ crash' = ""
    /\ status' = -1
    /\ requested' = {}
    /\ wrote' = {}
    /\ dirAtStart' = dir
    /\ prevReport' = [done |-> spc = "done", created |-> created, skipped |-> skipped,
                      failed |-> failed]
    /\ UNCHANGED <<dir, faults>>
    /\ UNCHANGED restOfSnippets

(***************************************************************************)
(* SpecSnippets: runs of the Snippet Synchronizer, one after the other.    *)
(***************************************************************************)
\* The paths of the tasks of a dataset.
PathsIn(f) == {outputPath(f.items[k].slug) : k \in {j \in 1..Len(f.items) : Truthy(f.items[j].slug)}}

\* The directory before the first run: at most MaxKept files, kept from
\* earlier, at paths of the dataset.
DirWith(kept) == [p \in Paths |-> IF p \in kept THEN OldFile ELSE NoFile]

InitSnippets ==
    /\ IdleFetch
    /\ pc = "idle"
    /\ file \in Datasets
    /\ served = NoPage
    /\ overviewHtml = ""
    /\ sourceEntries = <<>>
    /\ examples = <<>>
    /\ failure = ""
    /\ exitCode = -1
    /\ runs = 0
    /\ fileAtStart = file
    /\ prevRun = NoRun
    /\ today = 1
    /\ spc = "start"
    /\ dir \in {DirWith(kept) : kept \in {S \in SUBSET PathsIn(file) : Cardinality(S) <= MaxKept}}
    /\ tasks = <<>>
    /\ pending = <<>>
    /\ offset = 0
    /\ progress = <<>>
    /\ created = 0
    /\ skipped = 0
    /\ failed = 0
    /\ crash = ""
    /\ status = -1
    /\ requested = {}
    /\ wrote = {}
    /\ faults = 0
    /\ passes = 1
    /\ dirAtStart = dir
    /\ prevReport = NoReport
    /\ IdlePick
    /\ IdleCall
    /\ IdlePage

NextSnippets ==
    \/ MakeDir
    \/ MakeDirFails
    \/ ReadDataset
    \/ CheckFiles
    \/ StartBatch
    \/ \E k \in 1..Len(tasks) : TaskFetched(k)
    \/ \E k \in 1..Len(tasks) : TaskFetchFails(k)
    \/ \E k \in 1..Len(tasks) : PageRead(k)
    \/ \E k \in 1..Len(tasks) : PageReadFails(k)
    \/ \E k \in 1..Len(tasks) : SnippetWritten(k)
    \/ \E k \in 1..Len(tasks) : SnippetWriteFails(k)
    \/ BatchSettled
    \/ Report
    \/ SnippetsExit
    \/ NextPass

SpecSnippets == InitSnippets /\ [][NextSnippets]_vars

(***************************************************************************)
(* SpecPick: pickSnippet on its own, on lists of up to MaxBlocks blocks.   *)
(***************************************************************************)
\* A script of 50 characters, with and without a hint; a document of 50
\* characters that names the library; two scripts of one length with hints
\* of one bonus; a short block with the hint of HTML; a longer plain text.
PlainScript == "const center = [0, 0]; console.log(center[0] + 1);"
FullDocument == "<!DOCTYPE html><script>maplibregl.Map(); </script>"
CandidateBlocks ==
    { [lang |-> "", code |-> PlainScript],
      [lang |-> "language-js", code |-> PlainScript],
      [lang |-> "", code |-> FullDocument],
      [lang |-> "hljs language-ts", code |-> "let x = 1"],
      [lang |-> "language-javascript", code |-> "var y = 2"],
      [lang |-> "language-html", code |-> "<div id=\"map\"></div>"],
      [lang |-> "language-json", code |-> PlainScript \o " /* and some more text */"] }

RECURSIVE ListsOf(_)
ListsOf(n) ==
    IF n = 0 THEN {<<>>}
    ELSE ListsOf(n - 1) \cup
         {Append(list, block) : list \in ListsOf(n - 1), block \in CandidateBlocks}

InitPick ==
    /\ IdleFetch
    /\ IdleMain
    /\ IdleSnippets
    /\ IdleCall
    /\ IdlePage
    /\ blocks \in ListsOf(MaxBlocks)
    /\ picked = JUndefined

\* const snippet = pickSnippet(blocks)
PickSnippet ==
    /\ picked = JUndefined
    /\ picked' = pickSnippet(blocks)
    /\ UNCHANGED blocks
    /\ UNCHANGED <<fetchVars, mainVars, snippetVars, callVars, pageVars>>

NextPick == PickSnippet

SpecPick == InitPick /\ [][NextPick]_vars

(***************************************************************************)
(* SpecCall: functions of sync-examples.mjs on their own, each called once *)
(* with arguments drawn from the sets below.                               *)
(***************************************************************************)
NotReturned == [done |-> FALSE]

\* Titles and descriptions with keywords of the rules of classifyTag and
\* classifyLevel: none, one, and several of different rules; "Fly" and
\* "To a location." have a keyword only when joined.
ClassifierTitles ==
    { "Display a map", "3D Terrain", "Animate a point", "Create a Cluster",
      "Hover Popup", "Change the Font", "GeoJSON line", "Time Slider", "Fly" }
ClassifierDescriptions ==
    { "MapLibre GL JS example.", "To a location.", "Add terrain and animate it.",
      "Filter the heatmap data.", "Use deck.gl scripting.", "Style the label." }
ClassifierCalls ==
    { [fn |-> "classify", title |-> title, description |-> description] :
          title \in ClassifierTitles, description \in ClassifierDescriptions }

\* Pages for getDescription: with and without a heading, with and without
\* a description in the metadata, and paragraphs after the heading: one
\* plain; an image with a caption first; an empty frame first; a frame with
\* text first; a line of metadata first; the text of a tag first; none with
\* text.
DescriptionHeads == {"", "<h1>Display a map</h1>"}
DescriptionMetas ==
    { "",
      "<meta property=\"og:description\" content=\"Og &amp; text\">",
      "<meta charset=\"utf-8\"><meta name=\"description\" content=\"Named\">" }
ParagraphSequences ==
    { "<p>Initialize a map in an HTML element.</p>",
      "<p><img src=\"a.webp\">Shot</p><p>Initialize a map in an HTML element.</p>",
      "<p><iframe src=\"x\"></iframe></p><p>Initialize a map.</p>",
      "<p><iframe src=\"x\"></iframe>Demo</p><p>Initialize a map.</p>",
      "<p>meta property og</p><p>Initialize a map.</p>",
      "<p>&lt;iframe&gt; embeds</p><p>Initialize a map.</p>",
      "<p> </p><p><b></b></p>" }
DescriptionCalls ==
    { [fn |-> "getDescription", meta |-> meta, head |-> head, paragraphs |-> paragraphs] :
          meta \in DescriptionMetas, head \in DescriptionHeads,
          paragraphs \in ParagraphSequences }

\* Rounds of the loop of lines 471-499: an entry of a page of the model, at a
\* position of up to MaxIndex, with and without an entry of the prior file.
RoundEntries == {entry \in knownEntries : entry.slug \in {"add-a-marker", "display-a-map"}}
RoundCalls ==
    { [fn |-> "round", entry |-> entry, index |-> index, existing |-> existing] :
          entry \in RoundEntries, index \in 0..MaxIndex,
          existing \in {UndefinedElement,
                        PriorEntry(JString("add-a-marker"), JString("垰图梇记"), JUndefined)} }

CallInputs == ClassifierCalls \cup DescriptionCalls \cup RoundCalls

InitCall ==
    /\ IdleFetch
    /\ IdleMain
    /\ IdleSnippets
    /\ IdlePick
    /\ IdlePage
    /\ call \in CallInputs
    /\ returned = NotReturned

restOfCall == <<fetchVars, mainVars, snippetVars, pickVars, pageVars>>

\* tag: classifyTag(title, description), level: classifyLevel(title, description)
Classify ==
    /\ call.fn = "classify"
    /\ returned = NotReturned
    /\ returned' = [done |-> TRUE,
                    tag |-> classifyTag(call.title, call.description),
                    level |-> classifyLevel(call.title, call.description)]
    /\ UNCHANGED call
    /\ UNCHANGED restOfCall

\* getDescription(html)
GetDescription ==
    /\ call.fn = "getDescription"
    /\ returned = NotReturned
    /\ returned' = [done |-> TRUE,
                    text |-> getDescription(call.meta \o call.head \o call.paragraphs)]
    /\ UNCHANGED call
    /\ UNCHANGED restOfCall

\* One round of the loop: examples.push({...})
Round ==
    /\ call.fn = "round"
    /\ returned = NotReturned
    /\ returned' = [done |-> TRUE,
                    example |-> roundWith(call.entry, call.index, call.existing).example]
    /\ UNCHANGED call
    /\ UNCHANGED restOfCall

NextCall ==
    \/ Classify
    \/ GetDescription
    \/ Round

SpecCall == InitCall /\ [][NextCall]_vars

(***************************************************************************)
(* SpecPage: the snippet state of the component Home of page.tsx           *)
(***************************************************************************)
\* useState(null): no example is open.
NoExample == [t |-> "null", slug |-> "", codePreview |-> ""]
PageExample(slug, codePreview) ==
    [t |-> "object", slug |-> slug, codePreview |-> codePreview]

\* The cards of the page: two examples, one with a codePreview of its own,
\* one whose slug is empty.
PageExamples ==
    { PageExample("add-a-marker", ""),
      PageExample("display-a-map", "const map = new maplibregl.Map({});"),
      PageExample("", "") }

\* activeExample?.slug, the dependency of the effect.
slugOf(example) == IF example.t = "null" THEN JUndefined ELSE JString(example.slug)

\* The text the server has at snippets/<slug>.html.
SnippetFile(slug) == "<!-- " \o slug \o " -->"

\* A call of loadSnippet: the slug it fetches, where it is ("fetching" in
\* await fetch, "text" in await response.text(), "done"), whether its
\* controller was aborted, how it ended, and whether it set a state after
\* its controller was aborted (history).
StartedLoad(slug) ==
    [slug |-> slug, phase |-> "fetching", aborted |-> FALSE, outcome |-> "", late |-> FALSE]

\* return () => controller.abort(): the cleanup of the effect that ran last.
\* Only the last call's controller can be not yet aborted.
cleanup(calls) ==
    [k \in 1..Len(calls) |-> IF k = Len(calls) THEN [calls[k] EXCEPT !.aborted = TRUE]
                              ELSE calls[k]]

\* if (!controller.signal.aborted), and variants for checking.
NeverAborted(load) == FALSE
AlwaysAborted(load) == TRUE
SignalAborted(load) == load.aborted

\* Lines 144-148.
activeCode ==
    IF snippetContent # "" THEN snippetContent ELSE activeExample.codePreview
hasCode == trim(activeCode) # ""
modalContentState ==
    IF snippetStatus = "loading" THEN "loading" ELSE IF hasCode THEN "ready" ELSE "empty"

restOfPage == <<fetchVars, mainVars, snippetVars, pickVars, callVars>>

InitPage ==
    /\ IdleFetch
    /\ IdleMain
    /\ IdleSnippets
    /\ IdlePick
    /\ IdleCall
    /\ activeExample = NoExample
    /\ snippetContent = ""
    /\ snippetStatus = "idle"
    /\ loads = <<>>
    /\ erred = {}

\* setActiveExample(value) in a click handler, the render that follows and
\* the effect of lines 164-202 when activeExample?.slug changed: React runs
\* the cleanup of the effect before and then the effect, in the task of the
\* click, so no completion of a fetch comes between them.
SetActiveExample(value) ==
    /\ activeExample' = value
    /\ IF slugOf(value) = slugOf(activeExample)
       THEN UNCHANGED <<snippetContent, snippetStatus, loads>>
       ELSE IF ~Truthy(slugOf(value))
       THEN /\ snippetContent' = ""
            /\ snippetStatus' = "idle"
            /\ loads' = cleanup(loads)
       ELSE /\ Len(loads) < MaxLoads
            /\ snippetStatus' = "loading"
            /\ snippetContent' = ""
            /\ loads' = Append(cleanup(loads), StartedLoad(value.slug))
    /\ UNCHANGED erred
    /\ UNCHANGED restOfPage

\* onClick={() => { setActiveExample(example); }} on a card
Select(example) ==
    /\ example # activeExample
    /\ SetActiveExample(example)

\* onClick={() => setActiveExample(null)} on the backdrop or the close button
Close ==
    /\ activeExample # NoExample
    /\ SetActiveExample(NoExample)

\* await fetch(...) resolves with a response that is ok; response.text() begins.
ResponseOk(k) ==
    /\ loads[k].phase = "fetching"
    /\ ~loads[k].aborted
    /\ loads' = [loads EXCEPT ![k].phase = "text"]
    /\ UNCHANGED <<activeExample, snippetContent, snippetStatus, erred>>
    /\ UNCHANGED restOfPage

\* catch (error) { if (!controller.signal.aborted) setSnippetStatus("error") }
\* in the call k, which ends with outcome.
Catch(k, outcome) ==
    /\ snippetStatus' = IF SignalAborted(loads[k]) THEN snippetStatus ELSE "error"
    /\ erred' = IF SignalAborted(loads[k]) THEN erred ELSE erred \cup {loads[k].slug}
    /\ loads' = [loads EXCEPT ![k].phase = "done", ![k].outcome = outcome,
                               ![k].late = loads[k].aborted /\ ~SignalAborted(loads[k])]
    /\ UNCHANGED <<activeExample, snippetContent>>
    /\ UNCHANGED restOfPage

\* The response is not ok: throw new Error(`Snippet not found: ...`).
ResponseNotOk(k) ==
    /\ loads[k].phase = "fetching"
    /\ ~loads[k].aborted
    /\ Catch(k, "status")

\* fetch rejects (the network fails), or response.text() rejects.
LoadRejects(k) ==
    /\ loads[k].phase \in {"fetching", "text"}
    /\ ~loads[k].aborted
    /\ Catch(k, "throw")

\* The controller was aborted while fetch or response.text() was pending:
\* the promise rejects with an AbortError.
AbortRejects(k) ==
    /\ loads[k].phase \in {"fetching", "text"}
    /\ loads[k].aborted
    /\ Catch(k, "abort")

\* response.text() resolves: setSnippetContent(text); setSnippetStatus("ready")
TextRead(k) ==
    /\ loads[k].phase = "text"
    /\ ~loads[k].aborted
    /\ snippetContent' = SnippetFile(loads[k].slug)
    /\ snippetStatus' = "ready"
    /\ loads' = [loads EXCEPT ![k].phase = "done", ![k].outcome = "ok"]
    /\ UNCHANGED <<activeExample, erred>>
    /\ UNCHANGED restOfPage

NextPage ==
    \/ \E example \in PageExamples : Select(example)
    \/ Close
    \/ \E k \in 1..Len(loads) : ResponseOk(k)
    \/ \E k \in 1..Len(loads) : ResponseNotOk(k)
    \/ \E k \in 1..Len(loads) : LoadRejects(k)
    \/ \E k \in 1..Len(loads) : AbortRejects(k)
    \/ \E k \in 1..Len(loads) : TextRead(k)

SpecPage == InitPage /\ [][NextPage]_vars

(***************************************************************************)
(* Claims about fetchWithRetry, checked under SpecFetch.                   *)
(***************************************************************************)

\* C1: a call whose every attempt fails makes exactly `attempts` fetch calls
\* before it throws, and no call ever makes more than `attempts`.
C1_ExactlyMaxAttempts ==
    /\ nFetch <= attempts
    /\ (fpc = "thrown" => nFetch = attempts)

C1_Witness ==
    /\ fpc = "thrown"
    /\ script = "examples"
    /\ attempts = 3
    /\ nFetch = 3

\* C2: every call terminates: until it has returned or thrown, some step of
\* it (a response, or the timeout's abort) is possible, whatever the remote
\* does with the request in flight.
C2_FetchAlwaysTerminates == FetchDone \/ ENABLED NextFetch

\* C3: a call that throws throws the error of its last attempt: the error
\* object created by attempt attempts-1, built from that attempt's outcome,
\* never undefined.
C3_ThrowsLastError ==
    fpc = "thrown" =>
        /\ lastError.kind \in {"status", "thrown", "abort"}
        /\ lastError.at = attempts - 1
        /\ (lastError.kind = "status" =>
                /\ remote.kind = "status"
                /\ lastError.status = remote.status
                /\ lastError.url = url)
        /\ (lastError.kind = "thrown" => remote.kind = "throw")
        /\ (lastError.kind = "abort" => HasTimeout(script))

C3_Witness ==
    /\ fpc = "thrown"
    /\ attempts = 3
    /\ lastError = StatusError(url, 503, 2)

\* C4: the i-th delay is base*i (1-based), and a call that fails after
\* `attempts` attempts has suspended exactly attempts-1 times.
C4_DelaysOnlyBetweenAttempts ==
    /\ \A i \in 1..Len(delays) : delays[i] = BackoffBase * i
    /\ (fpc = "thrown" => Len(delays) = attempts - 1)

\* C27: a call returns with the first response that is ok and goes no
\* further: when it has returned on its k-th attempt it has made exactly k
\* requests and suspended k - 1 times, once after each attempt before, and
\* no request or suspension of the call follows; an attempt that the remote
\* answers ok is followed by a backoff only when its timeout aborted it
\* before the answer.
C27_ReturnsOnFirstOk ==
    /\ (fpc = "sleep" /\ remote.kind = "ok") => lastError = AbortError(attempt)
    /\ fpc = "returned" =>
          /\ remote.kind = "ok"
          /\ nFetch = attempt + 1
          /\ Len(delays) = attempt
          /\ \A i \in 1..Len(delays) : delays[i] = BackoffBase * i
          /\ ~ENABLED Send
          /\ ~ENABLED Wake
          /\ ~ENABLED (RespondOk \/ RespondStatus \/ RespondThrow \/ TimerFires)

\* A call of four attempts returned on its third, after a status and a
\* timeout.
C27_Witness ==
    /\ fpc = "returned"
    /\ script = "snippets"
    /\ attempts = 4
    /\ attempt = 2
    /\ nFetch = 3
    /\ delays = <<BackoffBase, 2 * BackoffBase>>

(***************************************************************************)
(* Claims about the Catalog Synchronizer, checked under Spec.              *)
(***************************************************************************)
\* C5: when the overview fetch has failed after its 4 attempts the run is
\* over: main is rejected, nothing is written and the output file is what it
\* was when the run started, and the process exits with status 1.
C5_OverviewFailureIsFatal ==
    failure = "fetch" =>
        /\ nFetch = OverviewAttempts
        /\ pc \in {"rejected", "exited"}
        /\ file = fileAtStart
        /\ (pc = "rejected" => ENABLED Exit)
        /\ (pc = "exited" => exitCode = 1)

\* A run over a dataset of an earlier run whose overview fetch failed.
C5_Witness ==
    /\ pc = "exited"
    /\ failure = "fetch"
    /\ exitCode = 1
    /\ runs = 2
    /\ prevRun.ok
    /\ Len(file.items) = 2
    /\ file = fileAtStart

\* C6: the written dataset has one entry for each slug that the page links to
\* with a slug-shaped target, and no other: no slug twice, every entry's slug
\* is the target of a link of the page, no linked slug of the model's pages
\* is missing, and the entries are in the order of the first link to each.
C6_OneEntryPerListedSlug ==
    pc = "done" =>
        LET written == [k \in 1..Len(file.items) |-> file.items[k].slug.v]
            FirstLink(slug) ==
                IndexOf(overviewHtml, "href=\"" \o slug \o "/\"", 1, FALSE)
        IN /\ \A i, j \in 1..Len(written) :
                 i < j => /\ written[i] # written[j]
                          /\ FirstLink(written[i]) < FirstLink(written[j])
           /\ \A k \in 1..Len(written) : FirstLink(written[k]) > 0
           /\ \A slug \in {"add-a-marker", "display-a-map", "Add-Marker", "fly-to",
                           "terrain", "plugins"} :
                 FirstLink(slug) > 0 => InSeq(slug, written)

\* A page with a section whose slug no link has, and two links to one slug.
C6_Witness ==
    /\ pc = "done"
    /\ overviewHtml = Fragments[4] \o Fragments[6]
    /\ Len(file.items) = 2
    /\ file.items[1].slug = JString("display-a-map")
    /\ file.items[2].slug = JString("add-a-marker")

\* C7: every slug of sourceEntries consists of lowercase letters, digits and
\* hyphens only (a target with a capital letter never produces an entry).
C7_OnlyLowercaseSlugsAdmitted ==
    \A k \in 1..Len(sourceEntries) :
        \A i \in 1..Len(sourceEntries[k].slug) :
            LET c == CharAt(sourceEntries[k].slug, i) IN
            c \in LowerSet \/ IsDigit(c) \/ c = "-"

\* C8: no run fails because of what the prior output file holds: main is
\* never rejected by the TypeError of the merge loop.
C8_PriorFileNeverFailsRun == ~(pc \in {"rejected", "exited"} /\ failure = "TypeError")

\* C9: in the written dataset, each of titleCn and descriptionCn of an entry
\* is the value of the prior file's last entry of that slug when that value
\* is a string judged translated, and the translation of the entry's current
\* title (description) otherwise, each field on its own.
C9_MergePolicyPerField ==
    pc = "done" =>
        LET prior == IF fileAtStart.kind = "json" /\ fileAtStart.top = "object"
                        /\ fileAtStart.list = "array"
                     THEN fileAtStart.items ELSE <<>>
        IN \A k \in 1..Len(examples) :
              LET e == examples[k]
                  same == {i \in 1..Len(prior) :
                              prior[i].t = "object" /\ prior[i].slug = JString(e.slug)}
                  Kept(field) ==
                      /\ same # {}
                      /\ prior[Max(same)][field].t = "string"
                      /\ judgedChinese(prior[Max(same)][field].v)
              IN /\ e.titleCn = IF Kept("titleCn") THEN prior[Max(same)].titleCn.v
                                ELSE translatedTitle(e.title)
                 /\ e.descriptionCn =
                        IF Kept("descriptionCn") THEN prior[Max(same)].descriptionCn.v
                        ELSE translatedDescription(e.description)

\* A written entry whose titleCn is the prior file's value, which the
\* translator would not produce, and whose descriptionCn is regenerated
\* although the prior file has a description for it.
C9_Witness ==
    /\ pc = "done"
    /\ runs = 1
    /\ Len(fileAtStart.items) = 1
    /\ Len(examples) >= 1
    /\ \E k \in 1..Len(examples) :
          /\ fileAtStart.items[1].slug = JString(examples[k].slug)
          /\ examples[k].titleCn = fileAtStart.items[1].titleCn.v
          /\ examples[k].titleCn # translatedTitle(examples[k].title)
          /\ Truthy(fileAtStart.items[1].descriptionCn)
          /\ examples[k].descriptionCn # fileAtStart.items[1].descriptionCn.v
          /\ examples[k].descriptionCn = translatedDescription(examples[k].description)

\* C10: a run that starts from the output of the run before it, on the same
\* page, writes the same entries with the same titleCn and descriptionCn.
C10_SecondRunSameTranslations ==
    (pc = "done" /\ prevRun.ok) =>
        /\ Len(examples) = Len(prevRun.examples)
        /\ \A k \in 1..Len(examples) :
              /\ examples[k].slug = prevRun.examples[k].slug
              /\ examples[k].titleCn = prevRun.examples[k].titleCn
              /\ examples[k].descriptionCn = prevRun.examples[k].descriptionCn

\* A second run that keeps one translated field of the first run's output
\* and regenerates another, which is not judged translated.
C10_Witness ==
    /\ pc = "done"
    /\ prevRun.ok
    /\ runs = 2
    /\ fileAtStart.items = [k \in 1..Len(prevRun.examples) |-> JsonEntry(prevRun.examples[k])]
    /\ \E k \in 1..Len(examples) :
          /\ judgedChinese(examples[k].titleCn)
          /\ ~judgedChinese(examples[k].descriptionCn)

\* C11: at every point of a run, also while the file is being written and
\* after a write that failed, examples.json is a complete dataset or is as
\* it was before the run: it is never a partially written file.
C11_FileNeverPartial ==
    file.kind = "partial" => fileAtStart.kind = "partial"

(***************************************************************************)
(* Claims about pickSnippet, checked under SpecPick.                       *)
(***************************************************************************)
\* The score the claim C19 gives a block.
C19_Score(block) ==
    Len(block.code)
        + (IF Contains(block.code, "<!doctype html>", TRUE) THEN 5000 ELSE 0)
        + (IF Contains(block.code, "maplibregl", TRUE) THEN 2000 ELSE 0)
        + (IF Contains(block.lang, "language-html", TRUE) THEN 1000 ELSE 0)
        + (IF \E hint \in {"language-js", "language-javascript", "language-ts",
                           "language-typescript"} : Contains(block.lang, hint, TRUE)
           THEN 500 ELSE 0)

\* C19: pickSnippet returns the code of a block whose score (length, +5000
\* for the document marker, +2000 for the library name, +1000 for the hint
\* of HTML, +500 for a hint of JS or TS) no block exceeds, the first such
\* block of the list; of a plain script of 50 characters and a document of
\* 50 characters that has the marker and names the library, the document is
\* returned in either order.
C19_PicksFirstOfHighestScore ==
    picked # JUndefined /\ blocks # <<>> =>
        /\ \E k \in 1..Len(blocks) :
              /\ picked = JString(blocks[k].code)
              /\ \A j \in 1..Len(blocks) : C19_Score(blocks[j]) <= C19_Score(blocks[k])
              /\ \A j \in 1..(k - 1) : C19_Score(blocks[j]) < C19_Score(blocks[k])
        /\ ({blocks[k].code : k \in 1..Len(blocks)} = {PlainScript, FullDocument}
               /\ (\A k \in 1..Len(blocks) : blocks[k].lang = "")
            => picked = JString(FullDocument))

\* C19 witness: pickSnippet returned the first of two blocks of different
\* code that share the highest score.
C19_Witness ==
    /\ picked.t = "string"
    /\ \E j \in 1..Len(blocks) : \E k \in (j + 1)..Len(blocks) :
          /\ blocks[j].code # blocks[k].code
          /\ picked.v = blocks[j].code
          /\ C19_Score(blocks[j]) = C19_Score(blocks[k])
          /\ \A i \in 1..Len(blocks) : C19_Score(blocks[i]) <= C19_Score(blocks[j])

(***************************************************************************)
(* Claims about the Snippet Synchronizer, checked under SpecSnippets.      *)
(***************************************************************************)
\* The tasks of the run that are in their async function.
InFlight == {k \in 1..Len(tasks) : progress[k] \in {"fetching", "text", "writing"}}

\* C12: no two tasks of a run write to the same output path.
C12_TasksWriteDistinctFiles ==
    \A j \in wrote : \A k \in wrote : j # k => tasks[j].outputPath # tasks[k].outputPath

\* C13: a task that ended failed, and whose path is that of no other task,
\* leaves no file at its path, so that the next run fetches it again.
C13_FailedTaskLeavesNoFile ==
    \A k \in 1..Len(tasks) :
        /\ progress[k] = "rejected"
        /\ \A j \in 1..Len(tasks) : j # k => tasks[j].outputPath # tasks[k].outputPath
        => ~dir[tasks[k].outputPath].exists

\* The task at position j of pending has left the queue.
Started(j) == progress[pending[j]] # "queued"

\* C14: at most 6 tasks are in flight; the tasks of pending start in the
\* order of the list, six by six, and none of a batch starts before every
\* task of the batches before it has settled.
C14_BatchesOfSix ==
    /\ Cardinality(InFlight) <= 6
    /\ \A i \in 1..Len(pending) : \A j \in 1..Len(pending) :
          /\ (i < j => pending[i] < pending[j])
          /\ (i < j /\ Started(j) => Started(i))
          /\ ((i - 1) \div 6 < (j - 1) \div 6 /\ Started(j)
                 => progress[pending[i]] \in {"fulfilled", "rejected"})

\* C14 witness: the seventh task of pending is in flight, in a second batch.
C14_Witness ==
    /\ Len(pending) > 6
    /\ progress[pending[7]] = "fetching"
    /\ \A i \in 1..6 : progress[pending[i]] \in {"fulfilled", "rejected"}

\* C15: a task that fails stops neither its siblings nor the run: main does
\* not reject, every task in flight can take its next step, and when the
\* run is done every task of pending has its outcome, a fulfilled task
\* wrote its file, and failed counts the rejected tasks, one each.
C15_FailureIsolated ==
    /\ (\E k \in 1..Len(tasks) : progress[k] = "rejected") => spc \notin {"rejected", "exited"}
    /\ \A k \in InFlight : ENABLED (TaskFetched(k) \/ PageRead(k) \/ SnippetWritten(k))
    /\ spc = "done" =>
          /\ \A j \in 1..Len(pending) : progress[pending[j]] \in {"fulfilled", "rejected"}
          /\ \A k \in 1..Len(tasks) :
                progress[k] = "fulfilled" => k \in wrote /\ dir[tasks[k].outputPath].exists
          /\ failed = Cardinality({k \in 1..Len(tasks) : progress[k] = "rejected"})
          /\ created = Cardinality({k \in 1..Len(tasks) : progress[k] = "fulfilled"})

\* C15 witness: a run is done in which one task of the first batch failed,
\* a sibling of it and the task of the second batch succeeded.
C15_Witness ==
    /\ spc = "done"
    /\ Len(pending) > 6
    /\ failed > 0
    /\ \E i \in 1..6 : \E j \in 1..6 :
          progress[pending[i]] = "rejected" /\ progress[pending[j]] = "fulfilled"
    /\ progress[pending[7]] = "fulfilled"

\* C16: a task whose file exists when it is checked is counted skipped,
\* sends no request and writes nothing; the file stays as it was.
C16_ExistingFileSkipped ==
    spc \in {"batch", "settling", "done"} =>
        /\ \A k \in 1..Len(tasks) :
              dirAtStart[tasks[k].outputPath].exists =>
                  /\ progress[k] = "skipped"
                  /\ k \notin requested
                  /\ k \notin wrote
                  /\ dir[tasks[k].outputPath] = dirAtStart[tasks[k].outputPath]
        /\ skipped = (Len(examplesOf(file)) - Len(tasks))
                        + Cardinality({k \in 1..Len(tasks) :
                                          dirAtStart[tasks[k].outputPath].exists})

\* C16 witness: a run is done that skipped a task whose file was there and
\* wrote the file of another.
C16_Witness ==
    /\ spc = "done"
    /\ \E k \in 1..Len(tasks) :
          dirAtStart[tasks[k].outputPath] = OldFile /\ progress[k] = "skipped"
    /\ \E k \in 1..Len(tasks) : progress[k] = "fulfilled"

\* C17: a run over N entries, each with slug and url, that finds every file
\* in place fetches nothing, writes nothing and counts created = 0,
\* skipped = N, failed = 0; so does the run after one in which no task
\* failed.
C17_RerunSkipsAll ==
    spc = "done" /\ Len(tasks) = Len(examplesOf(file)) =>
        /\ (\A k \in 1..Len(tasks) : dirAtStart[tasks[k].outputPath].exists) =>
              /\ created = 0
              /\ skipped = Len(examplesOf(file))
              /\ failed = 0
              /\ requested = {}
              /\ wrote = {}
              /\ dir = dirAtStart
        /\ passes > 1 /\ prevReport.done /\ prevReport.failed = 0 =>
              created = 0 /\ skipped = Len(examplesOf(file)) /\ failed = 0

\* C17 witness: the second run is done, after a first that created the
\* files of both its tasks.
C17_Witness ==
    /\ spc = "done"
    /\ passes = 2
    /\ prevReport.done
    /\ Len(tasks) = 2
    /\ prevReport.created = Len(tasks)
    /\ skipped = Len(tasks)

\* The positions of the entries of the dataset that lack a slug or a url.
Lacks(value) == value.t \in {"undefined", "null"} \/ value.v = ""
LackingEntries ==
    {k \in 1..Len(examplesOf(file)) :
        Lacks(examplesOf(file)[k].slug) \/ Lacks(examplesOf(file)[k].url)}

\* C18: an entry without slug or without url makes no task: every task has
\* both, the entry is counted once, in skipped and not in failed, and no
\* file is touched but at the path of a task.
C18_LackingEntryOnlySkipped ==
    spc \in {"check", "batch", "settling", "done"} =>
        /\ Len(tasks) = Len(examplesOf(file)) - Cardinality(LackingEntries)
        /\ \A k \in 1..Len(tasks) : tasks[k].slug # "" /\ tasks[k].url # ""
        /\ skipped = Cardinality(LackingEntries)
                        + Cardinality({k \in 1..Len(tasks) : progress[k] = "skipped"})
        /\ failed <= Len(pending)
        /\ spc = "done" => created + skipped + failed = Len(examplesOf(file))
        /\ \A p \in Paths :
              dir[p] # dirAtStart[p] => \E k \in 1..Len(tasks) : tasks[k].outputPath = p

\* C18 witness: a run is done over a dataset with four such entries; it
\* skipped only them and created a file.
C18_Witness ==
    /\ spc = "done"
    /\ Cardinality(LackingEntries) = 4
    /\ skipped = 4
    /\ created > 0

\* C20: a task whose page has no code block, or only blocks that are empty
\* once converted, never writes and ends rejected, counted in failed; no
\* block extracted from a page is empty.
C20_NoCodeBlockFails ==
    /\ \A k \in 1..Len(tasks) :
          blocksAtUrl(tasks[k].url) = <<>> =>
              /\ k \notin wrote
              /\ progress[k] \notin {"writing", "fulfilled"}
              /\ (spc = "done" /\ k \in requested => progress[k] = "rejected")
    /\ \A pair \in extractedBlocks : \A k \in 1..Len(pair[2]) : pair[2][k].code # ""
    /\ spc = "done" => failed = Cardinality({k \in requested : progress[k] = "rejected"})

\* C20 witness: a run without any network or file system failure is done,
\* and a task whose page has a block that is empty once converted failed.
C20_Witness ==
    /\ spc = "done"
    /\ faults = 0
    /\ failed > 0
    /\ \E k \in requested :
          /\ progress[k] = "rejected"
          /\ PreAt(RemotePage(tasks[k].url), 1).found

(***************************************************************************)
(* Claims about the entries of the catalog, checked under Spec.            *)
(***************************************************************************)
\* The sections of each page of the model (lines 160-195).
scannedSections == {<<page, scanSections(page, 1)>> : page \in Pages}

\* The title the claim C21 gives each slug of the model's pages.
C21_Title(slug) ==
    CASE slug = "add-a-marker" -> "Add A Marker"
      [] slug = "display-a-map" -> "Display A Map"
      [] slug = "Add-Marker" -> "Add Marker"
      [] slug = "fly-to" -> "Fly To"
      [] slug = "terrain" -> "Terrain"
      [] slug = "plugins" -> "Plugins"
      [] slug = "add-a-3d-model" -> "Add A 3D Model"
      [] slug = "pmtiles-webgl-gl" -> "PMTiles WebGL GL"
      [] OTHER -> "(no title)"

\* C21: an entry of sourceEntries whose slug no section of the page has is
\* titled from its slug (tokens with capitals, 3D, PMTiles, WebGL, GL) and
\* has the generic description; an entry whose slug a section has carries
\* that section's title and description; and a page with no section that
\* links to add-a-marker and display-a-map only is written as two entries,
\* titled "Add A Marker" and "Display A Map", both of level Beginner.
C21_UnsectionedSlugHumanized ==
    LET sections == Lookup(scannedSections, overviewHtml)
        Linked(slug) == IndexOf(overviewHtml, "href=\"" \o slug \o "/\"", 1, FALSE) > 0
    IN /\ \A k \in 1..Len(sourceEntries) :
             LET entry == sourceEntries[k]
                 same == {i \in 1..Len(sections) : sections[i].slug = entry.slug}
             IN IF same = {}
                THEN /\ entry.title = C21_Title(entry.slug)
                     /\ entry.description = "MapLibre GL JS example."
                ELSE \E i \in same : /\ entry.title = sections[i].title
                                     /\ entry.description = sections[i].description
       /\ ( /\ pc = "done"
            /\ sections = <<>>
            /\ {slug \in {"add-a-marker", "display-a-map", "Add-Marker", "fly-to",
                          "terrain", "plugins", "add-a-3d-model",
                          "pmtiles-webgl-gl"} : Linked(slug)}
                   = {"add-a-marker", "display-a-map"} )
          => /\ Len(examples) = 2
             /\ Len(file.items) = 2
             /\ {examples[1].title, examples[2].title} = {"Add A Marker", "Display A Map"}
             /\ examples[1].level = "Beginner"
             /\ examples[2].level = "Beginner"

\* A run that wrote the catalog of a page with the links add-a-marker and
\* display-a-map and no section, and a run whose page has a section for one of
\* its slugs and links to the slugs with 3d, pmtiles, webgl and gl.
C21_Witness ==
    /\ pc = "done"
    /\ \/ /\ overviewHtml = Fragments[1] \o Fragments[6]
          /\ Len(examples) = 2
          /\ examples[1].title = "Add A Marker"
          /\ examples[2].title = "Display A Map"
       \/ /\ overviewHtml = Fragments[2] \o Fragments[7]
          /\ Len(sourceEntries) = 3
          /\ sourceEntries[1].title = "Display a map"
          /\ sourceEntries[2].title = "Add A 3D Model"
          /\ sourceEntries[3].title = "PMTiles WebGL GL"


(***************************************************************************)
(* Claims about functions of sync-examples.mjs, checked under SpecCall.    *)
(***************************************************************************)
\* The labels in the order the claim C22 gives them.
C22_TagOrder ==
    <<"3D & Terrain", "Animation", "Performance", "Interaction", "Style", "Data",
      "UI Patterns">>
C22_LevelOrder == <<"Advanced", "Intermediate">>

\* C22: classifyTag and classifyLevel return the label of the first rule, in
\* the order 3D & Terrain, Animation, Performance, Interaction, Style, Data,
\* UI Patterns (Advanced, Intermediate), that has a keyword in the lower-cased
\* title and description, and Basics (Beginner) when none has; a text with a
\* terrain keyword and an animation keyword is tagged 3D & Terrain; the
\* results are labels of the closed sets.
C22_FirstRuleInOrder ==
    (call.fn = "classify" /\ returned.done) =>
        LET text == toLowerCase(call.title \o " " \o call.description)
            Has(keywords) == \E k \in 1..Len(keywords) : Contains(text, keywords[k], FALSE)
            tags == {k \in 1..Len(tagRules) : Has(tagRules[k].keywords)}
            levels == {k \in 1..Len(levelRules) : Has(levelRules[k].keywords)}
        IN /\ returned.tag = IF tags = {} THEN "Basics"
                              ELSE C22_TagOrder[CHOOSE k \in tags : \A j \in tags : k <= j]
           /\ returned.level = IF levels = {} THEN "Beginner"
                                ELSE C22_LevelOrder[CHOOSE k \in levels : \A j \in levels : k <= j]
           /\ returned.tag \in Range(C22_TagOrder) \cup {"Basics"}
           /\ returned.level \in {"Advanced", "Intermediate", "Beginner"}
           /\ (Contains(text, "terrain", FALSE) /\ Contains(text, "animate", FALSE))
                 => returned.tag = "3D & Terrain"

\* A text with a terrain keyword and an animation keyword was classified, as
\* 3D & Terrain and Advanced.
C22_Witness ==
    /\ call = [fn |-> "classify", title |-> "Animate a point",
               description |-> "Add terrain and animate it."]
    /\ returned.done
    /\ returned.tag = "3D & Terrain"
    /\ returned.level = "Advanced"


\* The contents of the paragraphs of html from position i on, in order.
RECURSIVE C23_Paragraphs(_, _)
C23_Paragraphs(html, i) ==
    LET at == IndexOf(html, "<p", i, TRUE) IN
    IF at = 0 THEN <<>>
    ELSE LET m == ParagraphAt(html, at) IN
         IF m.ok THEN <<m.raw>> \o C23_Paragraphs(html, m.next)
         ELSE C23_Paragraphs(html, m.next)

\* C23: getDescription never returns the text of a paragraph that contains
\* an <img>, an <iframe> or a meta marker: such a paragraph is skipped even
\* when it has text and the next qualifying paragraph's text is returned, so
\* on the paragraphs after the heading it returns what the section scan
\* returns on the same paragraphs.
C23_NoisyParagraphSkipped ==
    (call.fn = "getDescription" /\ returned.done /\ call.head # "") =>
        LET paragraphs == C23_Paragraphs(call.paragraphs, 1)
            bySection == sectionDescription(call.paragraphs, 1)
        IN /\ \A k \in 1..Len(paragraphs) :
                 ( \/ Contains(paragraphs[k], "<img", TRUE)
                   \/ Contains(paragraphs[k], "<iframe", TRUE)
                   \/ Contains(stripTags(paragraphs[k]), "meta property", TRUE) )
                 => returned.text # stripTags(paragraphs[k])
           /\ bySection # "" => returned.text = bySection


\* C24: the accent of the entry at position i is the color at i mod 27 of the
\* palette of 27, so the entries at i and i + 27 have the same accent; url is
\* the overview address, the slug and "/", and preview is the asset address,
\* the slug and ".webp", whatever the position, the texts and the prior entry.
C24_AccentCycles ==
    (call.fn = "round" /\ returned.done) =>
        LET example == returned.example
            later == roundWith(call.entry, call.index + 27, call.existing).example
        IN /\ Len(accentPalette) = 27
           /\ example.accent = accentPalette[(call.index % 27) + 1]
           /\ later.accent = example.accent
           /\ (call.index % 27 = 0) => example.accent = "from-amber-200 via-rose-200 to-orange-200"
           /\ example.url = "https://maplibre.org/maplibre-gl-js/docs/examples/"
                               \o call.entry.slug \o "/"
           /\ example.preview = "https://maplibre.org/maplibre-gl-js/docs/assets/examples/"
                                   \o call.entry.slug \o ".webp"
           /\ later.url = example.url
           /\ later.preview = example.preview

\* The entry at position 28 was built, with the second color of the palette.
C24_Witness ==
    /\ call.fn = "round"
    /\ call.index = 28
    /\ returned.done
    /\ returned.example.accent = accentPalette[2]
    /\ returned.example.accent # accentPalette[1]


(***************************************************************************)
(* Claims about runs of the Catalog Synchronizer, checked under Spec.      *)
(***************************************************************************)
\* The loop of lines 471-499 has built examples in the current run.
C25_Built ==
    \/ pc \in {"mkdir", "open", "writing", "done"}
    \/ pc \in {"rejected", "exited"} /\ failure \in {"mkdir", "write"}

C26_CountsAccountForEntries ==
    spc = "done" =>
        /\ \A j \in 1..Len(pending) : progress[pending[j]] \in Settled
        /\ created + skipped + failed = Len(examplesOf(file))
        /\ created = Cardinality({p \in Paths : dir[p].whole /\ ~dirAtStart[p].exists})


(***************************************************************************)
(* More claims about the Catalog Synchronizer, checked under Spec.         *)
(***************************************************************************)
\* The title and the description the claim C28 gives an entry of
\* sourceEntries, and classifyTag and classifyLevel of each such pair.
C28_Texts(entry) ==
    <<IF entry.title = "" THEN C21_Title(entry.slug) ELSE entry.title,
      IF entry.description = "" THEN "MapLibre GL JS example." ELSE entry.description>>
C28_Labels ==
    {<<C28_Texts(entry),
       [tag |-> classifyTag(C28_Texts(entry)[1], C28_Texts(entry)[2]),
        level |-> classifyLevel(C28_Texts(entry)[1], C28_Texts(entry)[2])]>> :
         entry \in knownEntries}

\* C28: every entry of examples, and of the file a run wrote, has a title
\* and a description that are not empty: the title of its section, or the
\* title derived from the slug when the section's title is empty; the
\* description of its section, or the generic one when the section has none;
\* and its tag and level are those of the title and description it has.
C28_TitleAndDescriptionNeverEmpty ==
    /\ C25_Built =>
          /\ Len(examples) = Len(sourceEntries)
          /\ \A k \in 1..Len(examples) :
                LET e == examples[k]
                    entry == sourceEntries[k]
                IN /\ e.title # ""
                   /\ e.description # ""
                   /\ <<e.title, e.description>> = C28_Texts(entry)
                   /\ e.tag = Lookup(C28_Labels, <<e.title, e.description>>).tag
                   /\ e.level = Lookup(C28_Labels, <<e.title, e.description>>).level
                   /\ (entry.slug = "fly-to" /\ entry.title = "" /\ entry.description = "")
                         => e.tag = "Animation" /\ e.level = "Beginner"
    /\ pc = "done" =>
          \A k \in 1..Len(file.items) :
              /\ file.items[k].title = JString(examples[k].title)
              /\ file.items[k].description = JString(examples[k].description)
              /\ file.items[k].title.v # ""
              /\ file.items[k].description.v # ""

\* A run wrote the entry of a section that has an empty title and only a
\* frame in its paragraph: titled from the slug, with the generic
\* description, tagged by the derived title.
C28_Witness ==
    /\ pc = "done"
    /\ overviewHtml = Fragments[5]
    /\ sourceEntries = <<[slug |-> "fly-to", title |-> "", description |-> ""]>>
    /\ Len(file.items) = 1
    /\ file.items[1].title = JString("Fly To")
    /\ file.items[1].description = JString("MapLibre GL JS example.")
    /\ file.items[1].tag = JString("Animation")


(***************************************************************************)
(* Claims about the page, checked under SpecPage.                          *)
(***************************************************************************)
\* C29: whatever the order of selections, closes and completions of
\* fetches, snippetContent is empty or the snippet of the example that is
\* open; with no example open it is empty and snippetStatus is idle; every
\* call of loadSnippet but the last was aborted, no call sets a state after
\* it was aborted, and a status loading, ready or error is that of the last
\* call, which fetches the slug of the example that is open.
C29_SnippetBelongsToActiveExample ==
    LET n == Len(loads) IN
    /\ snippetContent # "" =>
          /\ activeExample.t = "object"
          /\ snippetContent = SnippetFile(activeExample.slug)
          /\ snippetStatus = "ready"
    /\ activeExample = NoExample => snippetContent = "" /\ snippetStatus = "idle"
    /\ \A k \in 1..n : ~loads[k].late
    /\ \A k \in 1..(n - 1) : loads[k].aborted
    /\ snippetStatus \in {"loading", "ready", "error"} =>
          /\ n > 0
          /\ ~loads[n].aborted
          /\ loads[n].slug = activeExample.slug
          /\ (snippetStatus = "loading") = (loads[n].phase # "done")
          /\ (snippetStatus = "ready") = (loads[n].outcome = "ok")
    /\ snippetStatus = "idle" => \A k \in 1..n : loads[k].aborted

\* The fetch for add-a-marker ended by its abort after display-a-map was
\* opened, and the snippet shown is that of display-a-map.
C29_Witness ==
    /\ Len(loads) = 2
    /\ loads[1].slug = "add-a-marker"
    /\ loads[1].outcome = "abort"
    /\ activeExample.slug = "display-a-map"
    /\ snippetStatus = "ready"
    /\ snippetContent = SnippetFile("display-a-map")

\* C30: when the fetch of the open example's snippet has ended with a
\* response that is not ok or with a rejection, snippetStatus is error, not
\* loading, snippetContent is empty and the modal shows what it shows without
\* a snippet; the page still takes a close and the selection of another
\* example, which starts a new load.
C30_MissingSnippetEndsInError ==
    LET n == Len(loads) IN
    /\ (n > 0 /\ ~loads[n].aborted /\ loads[n].outcome \in {"status", "throw"}) =>
          /\ snippetStatus = "error"
          /\ snippetContent = ""
          /\ modalContentState =
                IF trim(activeExample.codePreview) # "" THEN "ready" ELSE "empty"
    /\ snippetStatus = "error" =>
          /\ loads[n].outcome \in {"status", "throw"}
          /\ ENABLED Close
          /\ \A example \in PageExamples \ {activeExample} :
                (n < MaxLoads \/ example.slug = "") => ENABLED Select(example)

\* After the load of add-a-marker ended in error, display-a-map was opened
\* and its snippet is shown.
C30_Witness ==
    /\ erred = {"add-a-marker"}
    /\ Len(loads) = 2
    /\ loads[1].outcome = "status"
    /\ activeExample.slug = "display-a-map"
    /\ snippetStatus = "ready"
    /\ snippetContent = SnippetFile("display-a-map")

====
